---------------------------- MODULE Spec2Model ----------------------------
(***************************************************************************)
(* Model of the AutoRescue carrier-delay actor (src/actor/source-code/     *)
(* src/main.py): the coordinator `main`, the admission gate (an asyncio    *)
(* semaphore), and the per-source pipeline `_evaluate_source` with the     *)
(* helpers it calls.                                                       *)
(*                                                                         *)
(* Representation.                                                         *)
(*  - Optional[T] is a sequence of length <= 1: None is <<>>, a present    *)
(*    value v is <<v>>.                                                    *)
(*  - A text (Python str holding document text) is a sequence of tokens;   *)
(*    a token stands for one character of the text.  Word tokens carry no  *)
(*    date; a date token "tNNN" is what dateutil's fuzzy parser reads as   *)
(*    the instant NNN hours after the epoch of the model.                  *)
(*  - A pattern is a text: the literal it searches for (case folded, as    *)
(*    re.IGNORECASE does).                                                 *)
(*  - Hours (Python floats) are integers: one unit is one hour.            *)
(*  - Identifiers (order ids, urls, incident ids) are TLA+ strings.        *)
(***************************************************************************)
EXTENDS Integers, Sequences, FiniteSets, TLC

(***************************************************************************)
(* Bounds of the model.                                                    *)
(***************************************************************************)
NumSources == 3
MaxPatterns == 2
MaxTextLen == 2
MaxPathLen == 3
MaxItems == 2

(***************************************************************************)
(* Program constants.                                                      *)
(***************************************************************************)
DEFAULT_SNAPSHOT_CHARS == 420
DEFAULT_DELAY_HOURS == 48
DEFAULT_MIN_DELAY_HOURS == 24
DEFAULT_CONCURRENCY == 4
MAX_CONCURRENCY == 10
MIN_RADIUS == 80
DEFAULT_STATUS_CODE == "IN_TRANSIT_DELAYED"
DEFAULT_SOURCE_LABEL == "apify-actor#carrier-delay-scan"
GENERIC_DESCRIPTION == <<"Carrier reported delay.">>
UNKNOWN_ORDER == "unknown-order"
\* The default pattern lists: "d" is a word the first default delay pattern
\* matches, "w" one the second matches; "r" and "v" likewise for the default
\* ignore patterns.
DEFAULT_DELAY_PATTERNS == << <<"d">>, <<"w">> >>
DEFAULT_IGNORE_PATTERNS == << <<"r">>, <<"v">> >>

(***************************************************************************)
(* Optional values and Python truthiness.                                  *)
(***************************************************************************)
None == <<>>
Some(v) == <<v>>

Max(a, b) == IF a >= b THEN a ELSE b
Min(a, b) == IF a <= b THEN a ELSE b

\* `x or y` on Optional[float]: None and 0.0 are falsy.
TruthyNum(o) == o # None /\ o[1] # 0
\* `x or y` on Optional[str]: None and "" are falsy.
TruthyText(o) == o # None /\ o[1] # <<>>
\* `x or y` on Optional[str] held as a TLA+ string.
TruthyStr(o) == o # None /\ o[1] # ""

(***************************************************************************)
(* Tokens.                                                                 *)
(***************************************************************************)
WordTokens == {"d", "D", "r", "x", "w", "v"}
DateTokens == {"t090", "t100", "t110", "t124"}

\* The instant a date token denotes, in hours.
TimeOf(tok) ==
    CASE tok = "t090" -> 90
      [] tok = "t100" -> 100
      [] tok = "t110" -> 110
      [] tok = "t124" -> 124

\* datetime.isoformat() with "+00:00" replaced by "Z", as a one-token text.
IsoOf(t) ==
    CASE t = 90 -> <<"0090Z">>
      [] t = 100 -> <<"0100Z">>
      [] t = 110 -> <<"0110Z">>
      [] t = 124 -> <<"0124Z">>

\* Case folding done by re.IGNORECASE.
Fold(tok) == IF tok = "D" THEN "d" ELSE tok

(***************************************************************************)
(* Pattern matcher.                                                        *)
(***************************************************************************)
\* A pattern that matches the empty string (such as `()` or `x*`); every
\* other pattern of the model is a literal.
EMPTY_MATCH == <<"()">>

\* The length of what the pattern matches.
MatchLen(pattern) == IF pattern = EMPTY_MATCH THEN 0 ELSE Len(pattern)

\* Whether the compiled pattern matches `text` at 0-based offset k.
MatchesAt(text, pattern, k) ==
    /\ k + MatchLen(pattern) <= Len(text)
    /\ \A j \in 1..MatchLen(pattern) : Fold(text[k + j]) = Fold(pattern[j])

\* compiled.search(text): the offsets at which the pattern occurs.
SearchOffsets(text, pattern) ==
    {k \in 0..Len(text) : MatchesAt(text, pattern, k)}

\* compiled.search(text) is not None.
Searches(text, pattern) == SearchOffsets(text, pattern) # {}

\* The leftmost occurrence, which re.search returns.
SearchStart(text, pattern) ==
    CHOOSE k \in SearchOffsets(text, pattern) :
        \A m \in SearchOffsets(text, pattern) : k <= m

_matches_pattern(text, patterns) ==
    IF ~TruthyText(text) THEN FALSE
    ELSE \E p \in 1..Len(patterns) : Searches(text[1], patterns[p])

PatternMatch(pattern, text, start, end, origin) ==
    [pattern |-> pattern, text |-> text, start |-> start, end |-> end,
     origin |-> origin]

\* The indices of the patterns that match `text`.
MatchingIndices(text, patterns) ==
    {p \in 1..Len(patterns) : Searches(text, patterns[p])}

FirstIndex(S) == CHOOSE p \in S : \A q \in S : p <= q

\* Returns Optional[PatternMatch]: the first pattern in list order that
\* matches, with the matched substring and its offsets.
_find_pattern(text, patterns, origin) ==
    IF ~TruthyText(text) THEN None
    ELSE LET hits == MatchingIndices(text[1], patterns) IN
         IF hits = {} THEN None
         ELSE LET p == FirstIndex(hits)
                  k == SearchStart(text[1], patterns[p])
              IN Some(PatternMatch(patterns[p],
                                   SubSeq(text[1], k + 1,
                                          k + MatchLen(patterns[p])),
                                   k, k + MatchLen(patterns[p]), origin))

(***************************************************************************)
(* Whitespace, snippets, timestamps, delay hours, identity.                *)
(***************************************************************************)
IsSpace(tok) == tok = " "

RECURSIVE LStrip(_)
LStrip(text) ==
    IF text # <<>> /\ IsSpace(Head(text)) THEN LStrip(Tail(text)) ELSE text

RECURSIVE RStrip(_)
RStrip(text) ==
    IF text # <<>> /\ IsSpace(text[Len(text)])
    THEN RStrip(SubSeq(text, 1, Len(text) - 1))
    ELSE text

\* re.sub(r"\s+", " ", text): a run of whitespace becomes one space.
RECURSIVE Collapse(_)
Collapse(text) ==
    IF Len(text) < 2 THEN text
    ELSE IF IsSpace(text[1]) /\ IsSpace(text[2]) THEN Collapse(Tail(text))
         ELSE <<text[1]>> \o Collapse(Tail(text))

_normalize_whitespace(text) == RStrip(LStrip(Collapse(text)))

\* text[:n] for any integer n (a negative n counts from the end).
PyPrefix(text, n) ==
    IF n >= 0 THEN SubSeq(text, 1, Min(n, Len(text)))
    ELSE SubSeq(text, 1, Max(Len(text) + n, 0))

_context_snippet(text, match, size) ==
    IF ~TruthyText(text) THEN None
    ELSE LET radius == Max(size \div 2, MIN_RADIUS)
             start == Max(match.start - radius, 0)
             end == Min(match.end + radius, Len(text[1]))
             snippet == _normalize_whitespace(SubSeq(text[1], start + 1, end))
             cut == IF Len(snippet) > size
                    THEN RStrip(PyPrefix(snippet, size))
                    ELSE snippet
         IN IF cut = <<>> THEN None ELSE Some(cut)

DateIndices(text) == {k \in 1..Len(text) : text[k] \in DateTokens}

\* dateutil's parse(value, fuzzy=True): tokens that are not part of a date
\* are skipped; a text with no date raises ValueError, which is caught.  The
\* result is converted to UTC.
_parse_datetime(value) ==
    IF ~TruthyText(value) THEN None
    ELSE IF DateIndices(value[1]) = {} THEN None
         ELSE Some(TimeOf(value[1][FirstIndex(DateIndices(value[1]))]))

_to_iso(dt) == IF dt = None THEN None ELSE Some(IsoOf(dt[1]))

\* As _determine_delay_hours, with the timestamps consulted before the
\* explicit hours.
DelayHoursTimestampsFirst(expected_delay_hours, promised, estimated, fallback) ==
    IF promised # None /\ estimated # None
    THEN Max(estimated[1] - promised[1], 0)
    ELSE IF TruthyNum(expected_delay_hours) /\ expected_delay_hours[1] > 0
         THEN expected_delay_hours[1]
         ELSE fallback

\* As _determine_delay_hours, without the floor at zero.
DelayHoursUnfloored(expected_delay_hours, promised, estimated, fallback) ==
    IF TruthyNum(expected_delay_hours) /\ expected_delay_hours[1] > 0
    THEN expected_delay_hours[1]
    ELSE IF promised # None /\ estimated # None
         THEN estimated[1] - promised[1]
         ELSE fallback

_determine_delay_hours(expected_delay_hours, promised, estimated, fallback) ==
    IF TruthyNum(expected_delay_hours) /\ expected_delay_hours[1] > 0
    THEN expected_delay_hours[1]
    ELSE IF promised # None /\ estimated # None
         THEN Max(estimated[1] - promised[1], 0)
         ELSE fallback

\* hashlib.md5(base.encode("utf-8")).hexdigest()[:8] on the bases of the model.
Md5Hex8(base) ==
    CASE base = "ord-1:https://a.example/t" -> "3b616235"
      [] base = "ord-1:https://b.example/t" -> "83789c84"
      [] base = "ord-2:https://a.example/t" -> "1544e02e"
      [] base = "ord-2:https://b.example/t" -> "0a90cec4"
      [] base = "ord-1:https://a.example/t:None" -> "56daf0a9"
      [] base = "ord-1:https://a.example/t:ups" -> "4f86433c"
      [] base = "ord-2:https://b.example/t:None" -> "1ed2ad9a"
      [] base = "unknown-order:https://a.example/t" -> "8957815c"
      [] base = "unknown-order:https://b.example/t" -> "faf87549"

\* str.upper() on the strings of the model.
Upper(s) ==
    CASE s = "ord-1" -> "ORD-1"
      [] s = "ord-2" -> "ORD-2"
      [] s = "3b616235" -> "3B616235"
      [] s = "83789c84" -> "83789C84"
      [] s = "1544e02e" -> "1544E02E"
      [] s = "0a90cec4" -> "0A90CEC4"
      [] s = "56daf0a9" -> "56DAF0A9"
      [] s = "4f86433c" -> "4F86433C"
      [] s = "1ed2ad9a" -> "1ED2AD9A"
      [] s = "unknown-order" -> "UNKNOWN-ORDER"
      [] s = "8957815c" -> "8957815C"
      [] s = "faf87549" -> "FAF87549"
      [] OTHER -> s

\* As _build_incident_id, with the carrier hashed too.
BuildIncidentIdWithCarrier(source) ==
    IF TruthyStr(source.incident_id) THEN source.incident_id[1]
    ELSE LET carrier == IF source.carrier = None THEN "None"
                        ELSE source.carrier[1]
             base == source.order_id \o ":" \o source.url \o ":" \o carrier
             digest == Md5Hex8(base)
         IN Upper("APIFY-") \o Upper(source.order_id) \o Upper("-")
                \o Upper(digest)

_build_incident_id(source) ==
    IF TruthyStr(source.incident_id) THEN source.incident_id[1]
    ELSE LET base == source.order_id \o ":" \o source.url
             digest == Md5Hex8(base)
         IN Upper("APIFY-") \o Upper(source.order_id) \o Upper("-")
                \o Upper(digest)

(***************************************************************************)
(* Settings.                                                               *)
(***************************************************************************)
\* _fallback_float(value, fallback) on an Optional number.
_fallback_float(value, fallback) == IF value = None THEN fallback ELSE value[1]

ClampConcurrency(raw) ==
    Max(1, Min(IF TruthyNum(raw) THEN raw[1] ELSE DEFAULT_CONCURRENCY,
               MAX_CONCURRENCY))

_parse_settings(payload) ==
    [default_delay_hours |->
         _fallback_float(payload.defaultDelayHours, DEFAULT_DELAY_HOURS),
     min_delay_hours |->
         _fallback_float(payload.minDelayHours, DEFAULT_MIN_DELAY_HOURS),
     snapshot_chars |->
         IF TruthyNum(payload.snapshotChars) THEN payload.snapshotChars[1]
         ELSE DEFAULT_SNAPSHOT_CHARS,
     source_label |-> DEFAULT_SOURCE_LABEL,
     delay_patterns |->
         IF payload.delayPatterns # <<>> THEN payload.delayPatterns
         ELSE DEFAULT_DELAY_PATTERNS,
     ignore_patterns |-> DEFAULT_IGNORE_PATTERNS,
     concurrency |-> ClampConcurrency(payload.concurrency),
     carrier_status_code |-> DEFAULT_STATUS_CODE]

(***************************************************************************)
(* The per-source pipeline, _evaluate_source, one operator per stage.  A   *)
(* stage maps the locals of the evaluation (a record) to the locals after  *)
(* it.  `state` is the pipeline state reached, `trace` the states entered  *)
(* so far, `exit` the reason for leaving the pipeline early.               *)
(***************************************************************************)
Terminal == {"Built", "Discarded", "Failed"}

NewEval ==
    [state |-> "Queued", trace |-> <<>>, exit |-> "none",
     response |-> None, is_json_mode |-> FALSE,
     status_text |-> None, estimated_raw |-> None, promised_raw |-> None,
     page_text |-> <<>>, match |-> None, context_snippet |-> None,
     estimated_dt |-> None, promised_dt |-> None,
     effective_min_delay |-> None, delay_hours |-> None, result |-> None]

Enter(L, st) == [L EXCEPT !.state = st, !.trace = Append(@, st)]

\* `return None`: the source is skipped.
Discard(L, why) == [Enter(L, "Discarded") EXCEPT !.exit = why]

\* An exception that _evaluate_source does not catch leaves the coroutine.
Raise(L) == [Enter(L, "Failed") EXCEPT !.exit = "exception"]

\* As IsJsonMode, with the declared mode of the source left out.
IsJsonModeContentTypeOnly(r, source) == r.json_ct

\* "application/json" in content_type or source.content_mode == "json"
IsJsonMode(r, source) == r.json_ct \/ source.content_mode = "json"

\* client.get, raise_for_status, then content type, body and mode.
FetchStage(L, source, r) ==
    CASE r.outcome \in {"http_error", "request_error"} ->
             Discard(L, "fetch_failure")
      [] r.outcome = "exception" -> Raise(L)
      [] OTHER ->
             [Enter(L, "ContentDetected") EXCEPT
                 !.response = Some(r),
                 !.promised_raw = source.promised_delivery_date,
                 !.page_text = _normalize_whitespace(r.body),
                 !.is_json_mode = IsJsonMode(r, source)]

(***************************************************************************)
(* JSON values and path resolution.  A decoded JSON value is a record:     *)
(* `type` is null, str, list or dict; `text` is str(value) for a string    *)
(* and json.dumps(value) for a list or dict; a list holds its `items`, a   *)
(* dict its `keys` and, at the same positions, its `items`.  Python's None *)
(* is the null value.                                                      *)
(***************************************************************************)
JNull == [type |-> "null", text |-> <<>>, keys |-> <<>>, items |-> <<>>]
JStr(text) == [type |-> "str", text |-> text, keys |-> <<>>, items |-> <<>>]
JList(items) ==
    [type |-> "list", text |-> <<"[]">>, keys |-> <<>>, items |-> items]
JDict(keys, items) ==
    [type |-> "dict", text |-> <<"{}">>, keys |-> keys, items |-> items]

\* str.isdigit() on the tokens of the model; "^2" stands for the character
\* SUPERSCRIPT TWO, which is a digit and not a decimal.
IsDigit(token) == token \in {"0", "1", "5", "^2"}

\* Whether int(token) raises ValueError.
IntRaises(token) == token \notin {"0", "1", "5"}

\* int(token) when it does not raise.
IntOf(token) ==
    CASE token = "0" -> 0
      [] token = "1" -> 1
      [] token = "5" -> 5

\* dict.get(token)
DictGet(current, token) ==
    IF \E k \in 1..Len(current.keys) : current.keys[k] = token
    THEN current.items[CHOOSE k \in 1..Len(current.keys) :
                          current.keys[k] = token]
    ELSE JNull

Returned(value) == [raised |-> FALSE, value |-> value]
Raised == [raised |-> TRUE, value |-> JNull]

\* The loop of _resolve_json_path over the tokens that are left.
RECURSIVE ResolveTokens(_, _)
ResolveTokens(current, tokens) ==
    IF tokens = <<>> THEN Returned(current)
    ELSE LET token == Head(tokens) IN
         CASE current.type = "list" ->
                 IF ~IsDigit(token) THEN Returned(JNull)
                 ELSE IF IntRaises(token) THEN Raised
                 ELSE IF IntOf(token) < Len(current.items)
                      THEN ResolveTokens(current.items[IntOf(token) + 1],
                                         Tail(tokens))
                      ELSE Returned(JNull)
           [] current.type = "dict" ->
                 ResolveTokens(DictGet(current, token), Tail(tokens))
           [] OTHER -> Returned(JNull)

NonEmptyToken(token) == token # ""

\* A path is held as the list re.split(r"[.\[\]]", path) gives; the empty
\* strings of that list are dropped.
_resolve_json_path(payload, path) ==
    ResolveTokens(payload, SelectSeq(path, NonEmptyToken))

\* The first path that resolves to a value with a non-empty text.
RECURSIVE _extract_from_json(_, _)
_extract_from_json(payload, paths) ==
    IF paths = <<>> THEN [raised |-> FALSE, value |-> None]
    ELSE LET r == _resolve_json_path(payload, Head(paths))
             text == _normalize_whitespace(r.value.text)
         IN IF r.raised THEN [raised |-> TRUE, value |-> None]
            ELSE IF r.value.type # "null" /\ text # <<>>
                 THEN [raised |-> FALSE, value |-> Some(text)]
                 ELSE _extract_from_json(payload, Tail(paths))

\* _extract_from_soup / _extract_from_json on one selected value: the
\* normalized text, or None when nothing is selected or the text is empty.
Candidate(raw) ==
    IF raw = None THEN None
    ELSE LET text == _normalize_whitespace(raw[1])
         IN IF text = <<>> THEN None ELSE Some(text)

\* As ExtractStage, with a body that does not decode ending the evaluation.
ExtractStageDecodeExit(L) ==
    LET r == L.response[1] IN
    IF r.raises THEN Raise(L)
    ELSE IF L.is_json_mode /\ ~r.decodes THEN Discard(L, "decode_failure")
    ELSE [Enter(L, "Extracted") EXCEPT
             !.status_text = Candidate(r.doc.status),
             !.estimated_raw = Candidate(r.doc.eta),
             !.promised_raw = IF TruthyText(L.promised_raw) THEN L.promised_raw
                              ELSE Candidate(r.doc.promised),
             !.page_text = _normalize_whitespace(r.body)]

\* As ExtractStage, with the candidates still read from a body that does
\* not decode.
ExtractStageKeepsCandidates(L) ==
    LET r == L.response[1] IN
    IF r.raises THEN Raise(L)
    ELSE [Enter(L, "Extracted") EXCEPT
             !.status_text = Candidate(r.doc.status),
             !.estimated_raw = Candidate(r.doc.eta),
             !.promised_raw = IF TruthyText(L.promised_raw) THEN L.promised_raw
                              ELSE Candidate(r.doc.promised),
             !.page_text = _normalize_whitespace(r.body)]

\* As ExtractStage, with the extracted promised value preferred to the
\* configured one.
ExtractStageExtractedPromisedFirst(L) ==
    LET r == L.response[1] IN
    IF r.raises THEN Raise(L)
    ELSE IF L.is_json_mode /\ ~r.decodes THEN Enter(L, "Extracted")
    ELSE [Enter(L, "Extracted") EXCEPT
             !.status_text = Candidate(r.doc.status),
             !.estimated_raw = Candidate(r.doc.eta),
             !.promised_raw = IF Candidate(r.doc.promised) # None
                              THEN Candidate(r.doc.promised)
                              ELSE L.promised_raw,
             !.page_text = _normalize_whitespace(r.body)]

ExtractStage(L) ==
    LET r == L.response[1] IN
    IF r.raises THEN Raise(L)
    ELSE IF L.is_json_mode /\ ~r.decodes THEN Enter(L, "Extracted")
    ELSE [Enter(L, "Extracted") EXCEPT
             !.status_text = Candidate(r.doc.status),
             !.estimated_raw = Candidate(r.doc.eta),
             !.promised_raw = IF TruthyText(L.promised_raw) THEN L.promised_raw
                              ELSE Candidate(r.doc.promised),
             !.page_text = _normalize_whitespace(r.body)]

\* The extraction, with the status candidate resolved by the status paths
\* of the source when the response carries a decoded JSON document.
ExtractWithPaths(L, source) ==
    LET r == L.response[1]
        resolved == L.is_json_mode /\ r.decodes /\ ~r.raises /\ r.json # None
        status == _extract_from_json(r.json[1], source.status_paths)
        E == ExtractStage(L)
    IN IF ~resolved THEN E
       ELSE IF status.raised THEN Raise(L)
       ELSE [E EXCEPT !.status_text = status.value]

\* As IgnoreMatched, without the search of the body.
IgnoreMatchedStatusOnly(L, source) ==
    _matches_pattern(L.status_text, source.ignore_patterns)

IgnoreMatched(L, source) ==
    \/ _matches_pattern(L.status_text, source.ignore_patterns)
    \/ _matches_pattern(Some(L.page_text), source.ignore_patterns)

IgnoreStage(L, source) ==
    IF IgnoreMatched(L, source) THEN Discard(L, "ignore")
    ELSE Enter(L, "IgnoreChecked")

\* As SelectMatch, with the two searches in the other order.
SelectMatchBodyFirst(status_text, page_text, patterns) ==
    LET m == _find_pattern(Some(page_text), patterns, "body")
    IN IF m # None THEN m ELSE _find_pattern(status_text, patterns, "status")

\* The status candidate is searched first, the body only when it fails.
SelectMatch(status_text, page_text, patterns) ==
    LET m == _find_pattern(status_text, patterns, "status")
    IN IF m # None THEN m ELSE _find_pattern(Some(page_text), patterns, "body")

MatchStage(L, source) ==
    LET m == SelectMatch(L.status_text, L.page_text, source.delay_patterns)
    IN IF m = None THEN Discard(L, "no_match")
       ELSE [Enter(L, "PatternMatched") EXCEPT !.match = m]

\* source.min_delay_hours or settings.min_delay_hours
EffectiveMinDelay(source, settings) ==
    IF TruthyNum(source.min_delay_hours) THEN source.min_delay_hours[1]
    ELSE settings.min_delay_hours

\* As BelowThreshold, with a delay equal to the minimum discarded too.
BelowThresholdStrict(delay_hours, effective_min_delay) ==
    delay_hours <= effective_min_delay

BelowThreshold(delay_hours, effective_min_delay) ==
    delay_hours < effective_min_delay

\* As EstimatedText, with the snippet read when the extracted text does not
\* parse.
EstimatedTextSnippetOnFailure(estimated_raw, snippet) ==
    IF _parse_datetime(estimated_raw) # None THEN estimated_raw ELSE snippet

\* `estimated_raw or context_snippet`
EstimatedText(estimated_raw, snippet) ==
    IF TruthyText(estimated_raw) THEN estimated_raw ELSE snippet

ThresholdStage(L, source, settings) ==
    LET match == L.match[1]
        snippet == _context_snippet(
                       IF match.origin = "status" THEN L.status_text
                       ELSE Some(L.page_text),
                       match, settings.snapshot_chars)
        estimated_dt == _parse_datetime(EstimatedText(L.estimated_raw,
                                                      snippet))
        promised_dt == _parse_datetime(L.promised_raw)
        effective == EffectiveMinDelay(source, settings)
        delay_hours == _determine_delay_hours(source.expected_delay_hours,
                           promised_dt, estimated_dt,
                           settings.default_delay_hours)
        L2 == [L EXCEPT !.context_snippet = snippet,
                        !.estimated_dt = estimated_dt,
                        !.promised_dt = promised_dt,
                        !.effective_min_delay = Some(effective),
                        !.delay_hours = Some(delay_hours)]
    IN IF BelowThreshold(delay_hours, effective)
       THEN Discard(L2, "below_threshold")
       ELSE Enter(L2, "ThresholdChecked")

NumKeys == {"delayHours", "detectedAt"}
StrKeys == {"incidentId", "orderId", "carrierStatusCode", "source", "carrier",
            "region"}
TextKeys == {"promisedDeliveryDate", "estimatedDelivery",
             "carrierStatusDescription", "rawStatusText",
             "rawEstimatedDelivery", "rawPromisedDelivery", "rawSnapshot",
             "matchedPattern", "matchedText"}

\* As Sparse, with the text-valued keys kept whatever their value.
SparseKeepsEmptyText(payload) ==
    [k \in {key \in DOMAIN payload :
               key \in TextKeys \/ payload[key] # None} |->
        IF payload[k] = None THEN <<>> ELSE payload[k][1]]

\* value in (None, "", [])
EmptyValue(k, v) ==
    \/ v = None
    \/ k \in StrKeys /\ v[1] = ""
    \/ k \in TextKeys /\ v[1] = <<>>

\* {key: value for key, value in payload.items() if value not in (None, "", [])}
Sparse(payload) ==
    [k \in {key \in DOMAIN payload : ~EmptyValue(key, payload[key])} |->
        payload[k][1]]

\* As StatusDescription, with the matched text preferred to the status text.
StatusDescriptionMatchFirst(L) ==
    IF L.match[1].text # <<>> THEN Some(L.match[1].text)
    ELSE IF TruthyText(L.status_text) THEN L.status_text
         ELSE Some(GENERIC_DESCRIPTION)

\* status_text or match.text or "Carrier reported delay."
StatusDescription(L) ==
    IF TruthyText(L.status_text) THEN L.status_text
    ELSE IF L.match[1].text # <<>> THEN Some(L.match[1].text)
         ELSE Some(GENERIC_DESCRIPTION)

\* The payload of the incident, every key with its Optional value; the
\* `metadata` key, which the code adds only for a non-empty dict, is None
\* otherwise.
BuildPayload(L, source, settings, now) ==
    LET estimated_iso == IF _to_iso(L.estimated_dt) # None
                         THEN _to_iso(L.estimated_dt) ELSE L.estimated_raw
        promised_iso == IF _to_iso(L.promised_dt) # None
                        THEN _to_iso(L.promised_dt) ELSE L.promised_raw
    IN [incidentId |-> Some(_build_incident_id(source)),
        orderId |-> Some(source.order_id),
        delayHours |-> L.delay_hours,
        promisedDeliveryDate |-> promised_iso,
        estimatedDelivery |-> estimated_iso,
        carrierStatusCode |->
            IF TruthyStr(source.carrier_status_code)
            THEN source.carrier_status_code
            ELSE Some(settings.carrier_status_code),
        carrierStatusDescription |-> StatusDescription(L),
        detectedAt |-> Some(now),
        source |-> IF TruthyStr(source.source_label) THEN source.source_label
                   ELSE Some(settings.source_label),
        carrier |-> source.carrier,
        region |-> source.region,
        rawStatusText |-> L.status_text,
        rawEstimatedDelivery |-> L.estimated_raw,
        rawPromisedDelivery |-> L.promised_raw,
        rawSnapshot |-> L.context_snippet,
        matchedPattern |-> Some(L.match[1].pattern),
        matchedText |-> Some(L.match[1].text),
        metadata |-> IF source.metadata # <<>> THEN Some(source.metadata)
                     ELSE None]

BuildStage(L, source, settings, now) ==
    [Enter(L, "Built") EXCEPT
        !.result = Some(Sparse(BuildPayload(L, source, settings, now)))]

\* The stage that follows the state the evaluation is in.
NextStage(L, source, settings, now) ==
    CASE L.state = "ContentDetected" -> ExtractWithPaths(L, source)
      [] L.state = "Extracted" -> IgnoreStage(L, source)
      [] L.state = "IgnoreChecked" -> MatchStage(L, source)
      [] L.state = "PatternMatched" -> ThresholdStage(L, source, settings)
      [] L.state = "ThresholdChecked" -> BuildStage(L, source, settings, now)

RECURSIVE RunToEnd(_, _, _, _)
RunToEnd(L, source, settings, now) ==
    IF L.state \in Terminal THEN L
    ELSE RunToEnd(NextStage(L, source, settings, now), source, settings, now)

\* _evaluate_source on its own: the locals at the end of the evaluation of
\* `source` when the transport answers `r` and the clock reads `now`.
EvaluateAlone(source, r, settings, now) ==
    RunToEnd(FetchStage(Enter(NewEval, "Fetching"), source, r),
             source, settings, now)

(***************************************************************************)
(* Inputs of the model.                                                    *)
(***************************************************************************)
MkSource(oid, url, carrier, iid, promised, hours, dpat, ipat, minh, mode) ==
    [url |-> url, order_id |-> oid, carrier |-> carrier, region |-> None,
     incident_id |-> iid, promised_delivery_date |-> promised,
     expected_delay_hours |-> hours, delay_patterns |-> dpat,
     ignore_patterns |-> ipat, min_delay_hours |-> minh,
     content_mode |-> mode, source_label |-> None,
     carrier_status_code |-> None, metadata |-> <<>>,
     status_paths |-> <<>>]

MkResponse(outcome, json_ct, decodes, raises, status, eta, promised, body) ==
    [outcome |-> outcome, json_ct |-> json_ct, decodes |-> decodes,
     raises |-> raises,
     doc |-> [status |-> status, eta |-> eta, promised |-> promised],
     body |-> body, json |-> None]

\* The actor input.  `sources` is the raw value of that key (see
\* _coerce_sources_payload); the top-level url, orderId,
\* promisedDeliveryDate and delayPatterns are those of the single-source
\* shorthand.
MkPayload(concurrency, minh, defh) ==
    [concurrency |-> concurrency, minDelayHours |-> minh,
     defaultDelayHours |-> defh, snapshotChars |-> None,
     sources |-> [kind |-> "none", entries |-> <<>>],
     url |-> None, orderId |-> None, promisedDeliveryDate |-> None,
     delayPatterns |-> <<>>]

\* One element of the `sources` list.  `object` tells whether it is a dict;
\* url, orderId and mode are the raw values of those keys, `config` holds
\* the values of the other keys.
MkEntry(object, url, orderId, mode, config) ==
    [object |-> object, url |-> url, orderId |-> orderId, mode |-> mode,
     config |-> config]

\* The entry from which from_dict builds `source`.
EntryOf(source) ==
    MkEntry(TRUE, Some(source.url), Some(source.order_id),
            Some(source.content_mode), source)

\* An input whose `sources` is the native list of the entries of `list`.
WithSources(p, list) ==
    [p EXCEPT !.sources = [kind |-> "list",
                           entries |-> [k \in 1..Len(list) |->
                                            EntryOf(list[k])]]]

DelayTokens == {"d", "r"}
IgnoreTokens == {"r", "x"}
TextTokens == {"D", "r"}

\* The non-empty pattern lists over one-token literals.
PatternLists(tokens) ==
    UNION {[1..k -> {<<t>> : t \in tokens}] : k \in 1..MaxPatterns}

TextsUpTo(n) == UNION {[1..k -> TextTokens] : k \in 0..n}

\* Transport failure, non-2xx status, an exception that is neither.
FailedResponses ==
    {MkResponse(o, FALSE, FALSE, FALSE, None, None, None, <<>>) :
        o \in {"http_error", "request_error", "exception"}}

\* A document whose extraction raises (an invalid selector, a body that is
\* not text).
RaisingResponses ==
    {MkResponse("ok", FALSE, FALSE, TRUE, None, None, None, <<"D">>)}

\* A JSON content type on a body that does not decode.
UndecodableResponses ==
    {MkResponse("ok", TRUE, FALSE, FALSE, Some(<<"D">>), None, None, <<"D">>)}

HtmlResponse(status, eta, promised, body) ==
    MkResponse("ok", FALSE, FALSE, FALSE, status, eta, promised, body)

\* Scope "match": every pattern list and every text within the bounds.
SourcesMatch ==
    {MkSource("ord-1", "https://a.example/t", None, None, None, e, dp, ip,
              None, "auto") :
        e \in {None, Some(10)}, dp \in PatternLists(DelayTokens),
        ip \in PatternLists(IgnoreTokens)}
    \cup
    {MkSource("ord-1", "https://a.example/t", None, None, None, None, dp, ip,
              Some(60), "auto") :
        dp \in PatternLists(DelayTokens), ip \in PatternLists(IgnoreTokens)}

ResponsesMatch ==
    FailedResponses \cup RaisingResponses \cup UndecodableResponses \cup
    {HtmlResponse(st, None, None, body) :
        st \in {None} \cup {Some(t) : t \in TextsUpTo(MaxTextLen) \ {<<>>}},
        body \in TextsUpTo(MaxTextLen)}

\* Scope "delay": every combination of explicit hours, thresholds and
\* timestamps, over a few documents.
HourValues == {None, Some(-5), Some(0), Some(10), Some(24)}
MinValues == {None, Some(0), Some(10), Some(30)}

SourcesDelay ==
    {MkSource("ord-1", "https://a.example/t", None, None, p, e,
              << <<"d">> >>, << <<"r">> >>, m, "auto") :
        p \in {None, Some(<<"t100">>)}, e \in HourValues, m \in MinValues}

DocumentsDelay ==
    {<<Some(<<"D">>), <<"x">>>>,
     <<None, <<" ", "D", " ", " ", "t110">>>>,
     <<None, <<"r", " ", "d">>>>,
     <<None, <<"x">>>>}

ResponsesDelay ==
    FailedResponses \cup RaisingResponses \cup UndecodableResponses \cup
    {HtmlResponse(d[1], eta, promised, d[2]) :
        d \in DocumentsDelay,
        eta \in {None, Some(<<"x">>), Some(<<"t090">>), Some(<<"t110">>),
                 Some(<<"t124">>)},
        promised \in {None, Some(<<"x">>), Some(<<"t100">>)}}

\* Scope "batch": a few sources, several of them at once.
PlainSource ==
    MkSource("ord-1", "https://a.example/t", None, None, None, None,
             << <<"d">> >>, << <<"r">> >>, None, "auto")

SourceCatalogue ==
    {PlainSource,
     MkSource("ord-1", "https://a.example/t", Some("ups"), None,
              Some(<<"t100">>), Some(30), << <<"r">>, <<"d">> >>,
              << <<"r">> >>, Some(10), "json"),
     MkSource("ord-2", "https://b.example/t", None, Some("INC-7"), None, None,
              << <<"d">> >>, << <<"r">> >>, None, "auto")}

ResponsesBatch ==
    {MkResponse("request_error", FALSE, FALSE, FALSE, None, None, None, <<>>),
     MkResponse("exception", FALSE, FALSE, FALSE, None, None, None, <<>>),
     HtmlResponse(Some(<<"D">>), None, None, <<"x">>),
     MkResponse("ok", TRUE, TRUE, FALSE, None, Some(<<"t124">>), None,
                <<"d", " ", "x">>)}

\* Scope "parse": every shape of the `sources` value, over valid and invalid
\* entries, with and without the top-level keys of the shorthand.
SecondSource ==
    MkSource("ord-2", "https://b.example/t", Some("ups"), None, None, None,
             <<>>, <<>>, None, "auto")

EntriesParse ==
    {MkEntry(TRUE, Some(" https://a.example/t "), Some(" ord-1 "), None,
             PlainSource),
     MkEntry(TRUE, Some("https://b.example/t"), Some("ord-2"), Some("auto"),
             SecondSource),
     MkEntry(TRUE, Some(" "), Some("ord-1"), None, PlainSource),
     MkEntry(TRUE, Some("https://a.example/t"), None, None, PlainSource),
     MkEntry(FALSE, None, None, None, PlainSource)}

SourcesValuesParse ==
    {[kind |-> k, entries |-> <<>>] :
        k \in {"none", "blank", "undecodable", "scalar"}}
    \cup {[kind |-> "object", entries |-> <<e>>] : e \in EntriesParse}
    \cup {[kind |-> k, entries |-> es] :
             k \in {"list", "encoded"},
             es \in UNION {[1..n -> EntriesParse] : n \in 0..NumSources}}

\* The top-level url and orderId.
ShorthandKeys ==
    {<<None, None>>, <<Some(" "), None>>,
     <<Some("https://b.example/t"), None>>,
     <<Some("https://b.example/t"), Some("ord-2")>>}

PayloadsParse ==
    {[MkPayload(None, None, None) EXCEPT
         !.sources = v, !.url = k[1], !.orderId = k[2]] :
        v \in SourcesValuesParse, k \in ShorthandKeys}

ResponsesParse ==
    {MkResponse("request_error", FALSE, FALSE, FALSE, None, None, None, <<>>),
     MkResponse("exception", FALSE, FALSE, FALSE, None, None, None, <<>>),
     HtmlResponse(Some(<<"D">>), None, None, <<"x">>)}

\* Scope "record": one source, every combination of optional fields, declared
\* mode and configured promised date, over JSON and HTML documents.
OptionalFields ==
    {<<c, g, m>> : c \in {None, Some("ups")}, g \in {None, Some("eu")},
                   m \in {<<>>, << <<"tier", "gold">> >>}}

ConfigsRecord ==
    {[MkSource("", "", f[1], None, p, None, << <<"d">> >>, << <<"r">> >>,
               None, "auto") EXCEPT !.region = f[2], !.metadata = f[3]] :
        f \in OptionalFields,
        p \in {None, Some(<<"t100">>), Some(<<"x">>)}}

\* A source whose delay pattern matches the empty string.
ConfigEmptyMatch ==
    MkSource("", "", None, None, None, None, <<EMPTY_MATCH>>, << <<"r">> >>,
             None, "auto")

ModeInputs == {None, Some("HTML"), Some("JSON")}

EntriesRecord ==
    {MkEntry(TRUE, Some("https://a.example/t"), Some("ord-1"), m, c) :
        m \in ModeInputs, c \in ConfigsRecord \cup {ConfigEmptyMatch}}

SnapshotInputs == {None, Some(0), Some(2), Some(-1)}

PayloadsRecord ==
    {MkPayload(None, Some(0), None)}
    \cup
    {[MkPayload(None, Some(0), None) EXCEPT
         !.sources = [kind |-> "list", entries |-> <<e>>],
         !.snapshotChars = n] :
        e \in EntriesRecord, n \in SnapshotInputs}

ResponsesRecord ==
    {MkResponse("request_error", FALSE, FALSE, FALSE, None, None, None, <<>>),
     MkResponse("ok", FALSE, FALSE, TRUE, None, None, None, <<"D">>)}
    \cup
    {MkResponse("ok", ct, dec, FALSE, st, eta, pr, body) :
        ct \in BOOLEAN, dec \in BOOLEAN,
        st \in {None, Some(<<"D">>), Some(<<"x">>)},
        eta \in {None, Some(<<"x">>), Some(<<"t110">>)},
        pr \in {None, Some(<<"x">>), Some(<<"t124">>)},
        body \in {<<"x">>, <<"x", " ", " ", "d", " ">>}}

\* Scope "path": a source in JSON mode with one or two status paths, over
\* every path of up to MaxPathLen tokens, and two JSON documents.
PathTokens == {"", "items", "status", "0", "1", "5", "^2"}

Paths == UNION {[1..n -> PathTokens] : n \in 1..MaxPathLen}

PathLists ==
    {<<p>> : p \in Paths}
    \cup {<<<<"items", "5">>, <<"status">>>>, <<<<"n">>, <<"items", "0">>>>}

EntriesPath ==
    {MkEntry(TRUE, Some("https://a.example/t"), Some("ord-1"), Some("JSON"),
             [PlainSource EXCEPT !.status_paths = ps]) : ps \in PathLists}

PayloadsPath ==
    {MkPayload(None, None, None)}
    \cup {[MkPayload(None, None, None) EXCEPT
              !.sources = [kind |-> "list", entries |-> <<e>>]] :
             e \in EntriesPath}

\* {"items": ["Delayed", {"status": "delayed"}], "status": "x", "n": null}
\* and ["Delayed", [" "]]
DocumentsPath ==
    {JDict(<<"items", "status", "n">>,
           <<JList(<<JStr(<<"D">>), JDict(<<"status">>, <<JStr(<<"d">>)>>)>>),
             JStr(<<"x">>), JNull>>),
     JList(<<JStr(<<"D">>), JList(<<JStr(<<" ">>)>>)>>)}

ResponsesPath ==
    {MkResponse("request_error", FALSE, FALSE, FALSE, None, None, None, <<>>)}
    \cup {[MkResponse("ok", TRUE, TRUE, FALSE, None, None, None, <<"x">>)
              EXCEPT !.json = Some(d)] : d \in DocumentsPath}

\* Scope "live": a request that raises and one whose answer is built.
ResponsesLive ==
    {MkResponse("exception", FALSE, FALSE, FALSE, None, None, None, <<>>),
     MkResponse("ok", TRUE, TRUE, FALSE, None, Some(<<"t124">>), None,
                <<"d", " ", "x">>)}

\* Scope "order": two sources with different orders, and requests that
\* fail, raise, or are answered with a delay.
SourcesOrder ==
    {PlainSource,
     MkSource("ord-2", "https://b.example/t", None, None, None, None,
              << <<"d">> >>, << <<"r">> >>, None, "auto")}

ResponsesOrder ==
    {MkResponse("request_error", FALSE, FALSE, FALSE, None, None, None, <<>>),
     MkResponse("exception", FALSE, FALSE, FALSE, None, None, None, <<>>),
     HtmlResponse(Some(<<"D">>), None, None, <<"x">>)}

SourcesFor(sc) ==
    CASE sc = "match" -> SourcesMatch
      [] sc = "delay" -> SourcesDelay
      [] sc = "batch" -> SourceCatalogue

ResponsesFor(sc) ==
    CASE sc = "match" -> ResponsesMatch
      [] sc = "delay" -> ResponsesDelay
      [] sc = "batch" -> ResponsesBatch
      [] sc = "parse" -> ResponsesParse
      [] sc = "record" -> ResponsesRecord
      [] sc = "path" -> ResponsesPath
      [] sc = "live" -> ResponsesLive
      [] sc = "order" -> ResponsesOrder

(***************************************************************************)
(* Parsing of the source list.                                             *)
(***************************************************************************)
\* str.strip() on the strings of the model.
Strip(s) ==
    CASE s = " " -> ""
      [] s = " https://a.example/t " -> "https://a.example/t"
      [] s = " ord-1 " -> "ord-1"
      [] OTHER -> s

\* str.lower() on the strings of the model.
Lower(s) ==
    CASE s = "JSON" -> "json"
      [] s = "HTML" -> "html"
      [] OTHER -> s

_clean_string(value) ==
    IF value = None THEN None
    ELSE IF Strip(value[1]) = "" THEN None ELSE Some(Strip(value[1]))

\* SourceConfig.from_dict: None stands for the ValueError it raises.
from_dict(entry, defaults) ==
    LET url == _clean_string(entry.url)
        order_id == _clean_string(entry.orderId)
        mode == _clean_string(entry.mode)
    IN IF ~entry.object THEN None
       ELSE IF url = None \/ order_id = None THEN None
       ELSE Some([entry.config EXCEPT
                     !.url = url[1],
                     !.order_id = order_id[1],
                     !.delay_patterns =
                         IF @ # <<>> THEN @ ELSE defaults.delay_patterns,
                     !.ignore_patterns =
                         IF @ # <<>> THEN @ ELSE defaults.ignore_patterns,
                     !.content_mode =
                         Lower(IF mode # None THEN mode[1] ELSE "auto")])

\* The kinds of value of `sources`: "none" (absent, None or ""), "blank" (a
\* string of whitespace), "undecodable" (a string json.loads rejects),
\* "encoded" (a string that decodes to a list), "object" (one dict), "list"
\* and "scalar" (anything else).  ok = FALSE stands for the ValueError.
_coerce_sources_payload(value) ==
    CASE value.kind \in {"none", "blank"} -> [ok |-> TRUE, list |-> <<>>]
      [] value.kind \in {"undecodable", "scalar"} ->
             [ok |-> FALSE, list |-> <<>>]
      [] value.kind \in {"encoded", "object", "list"} ->
             [ok |-> TRUE, list |-> value.entries]

\* The source synthesized from the top-level keys.
LegacySource(payload) ==
    MkEntry(TRUE, payload.url,
            IF TruthyStr(payload.orderId) THEN payload.orderId
            ELSE Some(UNKNOWN_ORDER),
            None,
            MkSource("", "", None, None, payload.promisedDeliveryDate, None,
                     payload.delayPatterns, <<>>, None, "auto"))

\* As ParseEntries, with the loop left at the first entry that is rejected.
RECURSIVE ParseEntriesUntilInvalid(_, _)
ParseEntriesUntilInvalid(entries, settings) ==
    IF entries = <<>> THEN <<>>
    ELSE LET source == from_dict(Head(entries), settings)
         IN IF source = None THEN <<>>
            ELSE <<source[1]>>
                     \o ParseEntriesUntilInvalid(Tail(entries), settings)

\* The loop of _parse_sources: entries that from_dict rejects are skipped.
RECURSIVE ParseEntries(_, _)
ParseEntries(entries, settings) ==
    IF entries = <<>> THEN <<>>
    ELSE LET source == from_dict(Head(entries), settings)
         IN (IF source = None THEN <<>> ELSE <<source[1]>>)
                \o ParseEntries(Tail(entries), settings)

\* `normalized_sources` before the loop: a rejected value counts as the
\* empty list, and an empty list with a top-level url gives the shorthand
\* source.
NormalizedSources(payload) ==
    LET coerced == _coerce_sources_payload(payload.sources)
        normalized == IF coerced.ok THEN coerced.list ELSE <<>>
    IN IF normalized = <<>> /\ TruthyStr(payload.url)
       THEN <<LegacySource(payload)>>
       ELSE normalized

_parse_sources(payload, settings) ==
    ParseEntries(NormalizedSources(payload), settings)

(***************************************************************************)
(* State.                                                                  *)
(***************************************************************************)
VARIABLES
    scope,      \* which input sets the run draws from
    payload,    \* the actor input
    settings,   \* ActorSettings
    sources,    \* the parsed source list (empty until main parses it)
    mainPc,     \* where `main` is: start, gather, done, fatal
    ev,         \* per source: the locals of its _evaluate_source
    served,     \* per source: what the transport answered
    sem,        \* the value of the semaphore
    running,    \* the task that holds the event loop, 0 when none does
    results,    \* per source: what gather holds for it
    incidents,  \* the `incidents` list of main
    dataset,    \* what was pushed: one entry per Actor.push_data call
    clock,      \* the wall clock read by _now_iso: an awaited request
                \* takes one unit of it in scope "order", and none at the
                \* resolution of the other scopes
    runner      \* the command-line runner: its arguments and its progress

vars == <<scope, payload, settings, sources, mainPc, ev, served, sem, running,
          results, incidents, dataset, clock, runner>>

Pending == [kind |-> "pending", value |-> None]

(***************************************************************************)
(* The command-line runner (python/apify_signal_runner.py).                *)
(***************************************************************************)
SUCCESS_STATUSES == {"SUCCEEDED", "SUCCEEDED_WITHOUT_CUSTOMER_ERRORS"}

\* The `status` of the run object get_run returns; None when it has none.
RunStatuses ==
    {None} \cup {Some(st) : st \in SUCCESS_STATUSES
                     \cup {"READY", "RUNNING", "FAILED", "TIMED-OUT", "ABORTED"}}

\* The value an item holds under a delay key: none, a number, or a text that
\* float() rejects.
NoDelay == [kind |-> "none", num |-> 0]
NumDelay(n) == [kind |-> "num", num |-> n]
TextDelay == [kind |-> "text", num |-> 0]

\* Truthiness of such a value: None and 0 are falsy.
TruthyDelay(v) == v.kind = "text" \/ (v.kind = "num" /\ v.num # 0)

MkItem(delayHours, delay_hours, orderId, order_id) ==
    [delayHours |-> delayHours, delay_hours |-> delay_hours,
     orderId |-> orderId, order_id |-> order_id]

\* item_to_incident: the incident of a dataset item, None when the item is
\* passed over.
item_to_incident(item, min_delay_hours) ==
    LET delay_hours == IF TruthyDelay(item.delayHours) THEN item.delayHours
                       ELSE item.delay_hours
        order_id == IF TruthyStr(item.orderId) THEN item.orderId
                    ELSE item.order_id
    IN IF delay_hours.kind # "num" THEN None
       ELSE IF delay_hours.num < min_delay_hours THEN None
       ELSE IF ~TruthyStr(order_id) THEN None
       ELSE Some([orderId |-> order_id[1], delayHours |-> delay_hours.num])

\* The loop over the items: the position of the first item that gives an
\* incident, 0 when none does.
FirstIncident(items, min_delay_hours) ==
    LET hits == {k \in 1..Len(items) :
                    item_to_incident(items[k], min_delay_hours) # None}
    IN IF hits = {} THEN 0 ELSE CHOOSE k \in hits : \A m \in hits : k <= m

\* Dataset items: delays above, below and at zero, under either key, a text
\* and no delay; order ids under either key, blank and absent.
ItemCatalogue ==
    {MkItem(NumDelay(30), NoDelay, Some("ord-1"), None),
     MkItem(NoDelay, NumDelay(30), None, Some("ord-2")),
     MkItem(NumDelay(10), NoDelay, Some("ord-3"), None),
     MkItem(NumDelay(0), NoDelay, Some("ord-4"), None),
     MkItem(TextDelay, NoDelay, Some("ord-5"), None),
     MkItem(NoDelay, NoDelay, Some("ord-6"), None),
     MkItem(NumDelay(30), NoDelay, Some(""), None),
     MkItem(NumDelay(30), NoDelay, None, None)}

ItemLists == UNION {[1..n -> ItemCatalogue] : n \in 0..MaxItems}

\* The arguments of the command line that run_actor_flow reads.
MkArgs(token, actor_id, dataset_id, min_delay_hours) ==
    [token |-> token, actor_id |-> actor_id, dataset_id |-> dataset_id,
     min_delay_hours |-> min_delay_hours]

NoArgs == MkArgs(FALSE, FALSE, None, 0)

ArgsRunner ==
    {MkArgs(t, a, d, m) : t \in BOOLEAN, a \in BOOLEAN,
                          d \in {None, Some("ds-1")}, m \in {0, 24}}

\* The runner at `pc` with nothing done yet.
RunnerWith(pc, args) ==
    [pc |-> pc, args |-> args,
     waited |-> FALSE,       \* get_run has returned
     status |-> None,        \* the status it returned
     read |-> FALSE,         \* the dataset items were requested
     listed |-> FALSE,       \* and returned
     items |-> <<>>,
     selected |-> 0,         \* the position of the item the incident is of
     incident |-> None,
     file |-> None,          \* what save_json wrote to the output path
     publication |-> "none"] \* none, published, skipped or failed

\* The state before main runs on one of the given inputs, and before the
\* runner starts as one of `runners`.
InitOf(sc, payloads, runners) ==
    /\ runner \in runners
    /\ scope = sc
    /\ payload \in payloads
    /\ settings = _parse_settings(MkPayload(None, None, None))
    /\ sources = <<>>
    /\ mainPc = "start"
    /\ ev = <<>>
    /\ served = <<>>
    /\ sem = 0
    /\ running = 0
    /\ results = <<>>
    /\ incidents = <<>>
    /\ dataset = <<>>
    /\ clock = 0

\* The state before main runs, on one of the given inputs; no runner.
InitOn(sc, payloads) == InitOf(sc, payloads, {RunnerWith("idle", NoArgs)})

\* The inputs whose `sources` is one of the lists, with the other keys of
\* one of the payloads.
InitWith(sc, sourceLists, payloads) ==
    InitOn(sc, {WithSources(p, list) : p \in payloads, list \in sourceLists})

\* The positions a source can have in the source list.
SourceIds == 1..NumSources

SeqsUpTo(n, S) == UNION {[1..k -> S] : k \in 0..n}

\* Configured values of `concurrency` outside the range, and none.
ConcurrencyInputs == {None, Some(-2), Some(0), Some(12)}

\* Every list of catalogue sources under a limit of 2, and lists of one
\* source under the other configured values.
Init ==
    \/ InitWith("batch", SeqsUpTo(NumSources, SourceCatalogue),
                {MkPayload(Some(2), None, None)})
    \/ InitWith("batch", SeqsUpTo(NumSources, {PlainSource}) \ {<<>>},
                {MkPayload(c, None, None) : c \in ConcurrencyInputs})

InitMatch ==
    InitWith("match", SeqsUpTo(1, SourcesMatch),
             {MkPayload(None, None, None)})

InitDelay ==
    InitWith("delay", SeqsUpTo(1, SourcesDelay),
             {MkPayload(None, None, d) : d \in {None, Some(10)}})

InitParse == InitOn("parse", PayloadsParse)
InitRecord == InitOn("record", PayloadsRecord)
InitPath == InitOn("path", PayloadsPath)

(***************************************************************************)
(* main.                                                                   *)
(***************************************************************************)
\* Settings and sources are parsed and no source was parsed: main raises
\* ValueError.
MainFatal ==
    /\ mainPc = "start"
    /\ settings' = _parse_settings(payload)
    /\ sources' = _parse_sources(payload, settings')
    /\ sources' = <<>>
    /\ mainPc' = "fatal"
    /\ UNCHANGED <<runner, scope, payload, ev, served, sem, running, results,
                   incidents, dataset, clock>>

\* Settings and sources are parsed, the semaphore is created and every
\* source's task is handed to gather.
MainStart ==
    /\ mainPc = "start"
    /\ settings' = _parse_settings(payload)
    /\ sources' = _parse_sources(payload, settings')
    /\ sources' # <<>>
    /\ ev' = [i \in 1..Len(sources') |-> NewEval]
    /\ served' = [i \in 1..Len(sources') |-> None]
    /\ results' = [i \in 1..Len(sources') |-> Pending]
    /\ sem' = settings'.concurrency
    /\ mainPc' = "gather"
    /\ UNCHANGED <<runner, scope, payload, running, incidents, dataset, clock>>

\* What gather(..., return_exceptions=True) holds for a finished task.
ResultOf(L) ==
    IF L.state = "Failed" THEN [kind |-> "exception", value |-> None]
    ELSE [kind |-> "value", value |-> L.result]

\* As Settle, with the slot kept by a task that raises.
SettleKeepsSlotOnException(i, L2) ==
    /\ ev' = [ev EXCEPT ![i] = L2]
    /\ IF L2.state \in Terminal
       THEN /\ sem' = IF L2.state = "Failed" THEN sem ELSE sem + 1
            /\ running' = 0
            /\ results' = [results EXCEPT ![i] = ResultOf(L2)]
       ELSE /\ sem' = sem
            /\ running' = i
            /\ results' = results

\* As Settle, with the slot never given back.
SettleKeepsSlot(i, L2) ==
    /\ ev' = [ev EXCEPT ![i] = L2]
    /\ sem' = sem
    /\ IF L2.state \in Terminal
       THEN /\ running' = 0
            /\ results' = [results EXCEPT ![i] = ResultOf(L2)]
       ELSE /\ running' = i
            /\ results' = results

\* The task of source i continues with locals L2: it keeps the event loop
\* until it returns or raises, and leaving `async with semaphore` releases
\* the slot.
Settle(i, L2) ==
    /\ ev' = [ev EXCEPT ![i] = L2]
    /\ IF L2.state \in Terminal
       THEN /\ sem' = sem + 1
            /\ running' = 0
            /\ results' = [results EXCEPT ![i] = ResultOf(L2)]
       ELSE /\ sem' = sem
            /\ running' = i
            /\ results' = results

\* As Admit, without the wait for a free slot.
AdmitUnbounded(i) ==
    /\ i \in DOMAIN ev
    /\ mainPc = "gather"
    /\ running = 0
    /\ ev[i].state = "Queued"
    /\ sem' = sem - 1
    /\ ev' = [ev EXCEPT ![i] = Enter(@, "Fetching")]
    /\ UNCHANGED <<runner, scope, payload, settings, sources, mainPc, served, running,
                   results, incidents, dataset, clock>>

\* `async with semaphore` is entered and client.get is awaited.
Admit(i) ==
    /\ i \in DOMAIN ev
    /\ mainPc = "gather"
    /\ running = 0
    /\ ev[i].state = "Queued"
    /\ sem > 0
    /\ sem' = sem - 1
    /\ ev' = [ev EXCEPT ![i] = Enter(@, "Fetching")]
    /\ UNCHANGED <<runner, scope, payload, settings, sources, mainPc, served, running,
                   results, incidents, dataset, clock>>

\* The awaited request of source i completes.
FetchDone(i) ==
    /\ i \in DOMAIN ev
    /\ mainPc = "gather"
    /\ running = 0
    /\ ev[i].state = "Fetching"
    /\ \E r \in ResponsesFor(scope) :
          /\ served' = [served EXCEPT ![i] = Some(r)]
          /\ Settle(i, FetchStage(ev[i], sources[i], r))
    /\ clock' = IF scope = "order" THEN clock + 1 ELSE clock
    /\ UNCHANGED <<runner, scope, payload, settings, sources, mainPc, incidents,
                   dataset>>

\* One stage of the synchronous part of the pipeline of source i.
Stage(i) ==
    /\ mainPc = "gather"
    /\ running = i
    /\ Settle(i, NextStage(ev[i], sources[i], settings, clock))
    /\ UNCHANGED <<runner, scope, payload, settings, sources, mainPc, served,
                   incidents, dataset, clock>>

Extract(i) ==
    /\ i \in DOMAIN ev
    /\ ev[i].state = "ContentDetected"
    /\ Stage(i)

IgnoreCheck(i) ==
    /\ i \in DOMAIN ev
    /\ ev[i].state = "Extracted"
    /\ Stage(i)

DelayMatch(i) ==
    /\ i \in DOMAIN ev
    /\ ev[i].state = "IgnoreChecked"
    /\ Stage(i)

ThresholdCheck(i) ==
    /\ i \in DOMAIN ev
    /\ ev[i].state = "PatternMatched"
    /\ Stage(i)

Build(i) ==
    /\ i \in DOMAIN ev
    /\ ev[i].state = "ThresholdChecked"
    /\ Stage(i)

\* As Collected, with the loop left at the first exception.
RECURSIVE CollectedUntilException(_, _)
CollectedUntilException(res, n) ==
    IF n = 0 THEN <<>>
    ELSE IF \E m \in 1..n : res[m].kind = "exception" THEN <<>>
         ELSE IF res[n].value # None
              THEN Append(CollectedUntilException(res, n - 1), res[n].value[1])
              ELSE CollectedUntilException(res, n - 1)

Earlier(a, b) == a.detectedAt < b.detectedAt

\* As Collected, with the incidents in the order the tasks finished in.
RECURSIVE CollectedAsCompleted(_, _)
CollectedAsCompleted(res, n) ==
    IF n = 0 THEN <<>>
    ELSE IF res[n].kind = "value" /\ res[n].value # None
              /\ DOMAIN res[n].value[1] # {}
         THEN SortSeq(Append(CollectedAsCompleted(res, n - 1),
                             res[n].value[1]), Earlier)
         ELSE CollectedAsCompleted(res, n - 1)

\* The loop over `results`: exceptions are logged and skipped, falsy items
\* are skipped, the rest is appended in order.
RECURSIVE Collected(_, _)
Collected(res, n) ==
    IF n = 0 THEN <<>>
    ELSE IF res[n].kind = "value" /\ res[n].value # None
              /\ DOMAIN res[n].value[1] # {}
         THEN Append(Collected(res, n - 1), res[n].value[1])
         ELSE Collected(res, n - 1)

\* As Collect, with a run that found no incident ending in an error.
CollectFailsOnEmpty ==
    /\ mainPc = "gather"
    /\ \A i \in 1..Len(sources) : ev[i].state \in Terminal
    /\ incidents' = Collected(results, Len(sources))
    /\ dataset' = IF incidents' = <<>> THEN dataset
                  ELSE Append(dataset, incidents')
    /\ mainPc' = IF incidents' = <<>> THEN "fatal" ELSE "done"
    /\ UNCHANGED <<runner, scope, payload, settings, sources, ev, served, sem, running,
                   results, clock>>

\* As Collect, with gather returning at the first finished task.
CollectAtFirstResult ==
    /\ mainPc = "gather"
    /\ \E i \in 1..Len(sources) : ev[i].state \in Terminal
    /\ incidents' = Collected(results, Len(sources))
    /\ dataset' = IF incidents' = <<>> THEN dataset
                  ELSE Append(dataset, incidents')
    /\ mainPc' = "done"
    /\ UNCHANGED <<runner, scope, payload, settings, sources, ev, served, sem, running,
                   results, clock>>

\* gather returns once every task is done; the incidents are pushed unless
\* there are none.
Collect ==
    /\ mainPc = "gather"
    /\ \A i \in 1..Len(sources) : ev[i].state \in Terminal
    /\ incidents' = Collected(results, Len(sources))
    /\ dataset' = IF incidents' = <<>> THEN dataset
                  ELSE Append(dataset, incidents')
    /\ mainPc' = "done"
    /\ UNCHANGED <<runner, scope, payload, settings, sources, ev, served, sem, running,
                   results, clock>>

Next ==
    \/ MainFatal
    \/ MainStart
    \/ \E i \in SourceIds :
          \/ Admit(i)
          \/ FetchDone(i)
          \/ Extract(i)
          \/ IgnoreCheck(i)
          \/ DelayMatch(i)
          \/ ThresholdCheck(i)
          \/ Build(i)
    \/ Collect

Spec == Init /\ [][Next]_vars
SpecMatch == InitMatch /\ [][Next]_vars
SpecDelay == InitDelay /\ [][Next]_vars
SpecParse == InitParse /\ [][Next]_vars
SpecRecord == InitRecord /\ [][Next]_vars
SpecPath == InitPath /\ [][Next]_vars

InitOrder ==
    InitWith("order", SeqsUpTo(NumSources, SourcesOrder),
             {MkPayload(c, None, None) : c \in {Some(2), Some(12)}})

SpecOrder == InitOrder /\ [][Next]_vars

\* Batches of up to NumSources sources under limits of 1 and 2, and an
\* input with no source; a request raises or is answered.
InitLive ==
    InitWith("live", SeqsUpTo(NumSources, {PlainSource}),
             {MkPayload(c, None, None) : c \in {Some(-2), Some(2)}})

\* The task that holds the event loop runs its next stage.
Run ==
    \E i \in SourceIds :
        \/ Extract(i)
        \/ IgnoreCheck(i)
        \/ DelayMatch(i)
        \/ ThresholdCheck(i)
        \/ Build(i)

\* The event loop runs every task that is ready: main itself, a task woken
\* by the semaphore, and the task that holds the loop; no task is
\* cancelled.  Every request completes or times out (client timeout).
Fairness ==
    /\ WF_vars(MainFatal \/ MainStart \/ Collect)
    /\ WF_vars(Run)
    /\ \A i \in SourceIds : WF_vars(Admit(i)) /\ WF_vars(FetchDone(i))

SpecLive == InitLive /\ [][Next]_vars /\ Fairness

(***************************************************************************)
(* run_actor_flow.                                                         *)
(***************************************************************************)
ActorIdle ==
    UNCHANGED <<scope, payload, settings, sources, mainPc, ev, served, sem,
                running, results, incidents, dataset, clock>>

Fail(R) == [R EXCEPT !.pc = "error"]

\* The arguments are checked; with a dataset id the run is skipped, without
\* one the actor run is started.
StartActorRun ==
    /\ runner.pc = "start"
    /\ \E outcome \in {"http_error", "no_id", "started"} :
          runner' =
              IF ~runner.args.token THEN Fail(runner)
              ELSE IF ~runner.args.actor_id /\ runner.args.dataset_id = None
                   THEN Fail(runner)
              ELSE IF runner.args.dataset_id # None
                   THEN [runner EXCEPT !.pc = "read"]
              ELSE IF outcome = "started" THEN [runner EXCEPT !.pc = "wait"]
              ELSE Fail(runner)
    /\ ActorIdle

\* The one get_run call returns, or raises; the status and the default
\* dataset id are read from what it returned.
GetRun ==
    /\ runner.pc = "wait"
    /\ \/ runner' = Fail(runner)
       \/ \E st \in RunStatuses, has_dataset \in BOOLEAN :
             LET R == [runner EXCEPT !.waited = TRUE, !.status = st] IN
             runner' =
                 IF st = None \/ st[1] \notin SUCCESS_STATUSES THEN Fail(R)
                 ELSE IF ~has_dataset THEN Fail(R)
                 ELSE [R EXCEPT !.pc = "read"]
    /\ ActorIdle

\* The dataset items are requested; the first item that gives an incident
\* is selected.
GetDatasetItems ==
    /\ runner.pc = "read"
    /\ \/ runner' = Fail([runner EXCEPT !.read = TRUE])
       \/ \E items \in ItemLists :
             LET k == FirstIncident(items, runner.args.min_delay_hours)
                 R == [runner EXCEPT !.read = TRUE, !.listed = TRUE,
                                     !.items = items, !.selected = k]
             IN runner' =
                    IF k = 0 THEN Fail(R)
                    ELSE [R EXCEPT
                            !.pc = "write",
                            !.incident = item_to_incident(
                                items[k], runner.args.min_delay_hours)]
    /\ ActorIdle

\* save_json(output_path, incident)
SaveJson ==
    /\ runner.pc = "write"
    /\ runner' = [runner EXCEPT !.pc = "publish", !.file = runner.incident]
    /\ ActorIdle

\* produce_to_redpanda publishes, is not configured, or raises; the
\* exception is caught and reported.
ProduceToRedpanda ==
    /\ runner.pc = "publish"
    /\ \E outcome \in {"published", "skipped", "failed"} :
          runner' = [runner EXCEPT !.pc = "done", !.publication = outcome]
    /\ ActorIdle

NextRunner ==
    \/ StartActorRun
    \/ GetRun
    \/ GetDatasetItems
    \/ SaveJson
    \/ ProduceToRedpanda

\* The runner before run_actor_flow, on every command line of ArgsRunner.
InitRunner ==
    InitOf("runner", {MkPayload(None, None, None)},
           {RunnerWith("start", args) : args \in ArgsRunner})

SpecRunner == InitRunner /\ [][NextRunner]_vars

(***************************************************************************)
(* Properties.                                                             *)
(***************************************************************************)
Started(i) == i \in DOMAIN ev /\ ev[i].state # "Queued"
Ended(i) == i \in DOMAIN ev /\ ev[i].state \in Terminal
BuiltIds == {i \in DOMAIN ev : ev[i].state = "Built"}
InFlight == {i \in DOMAIN ev : ev[i].state \notin Terminal \cup {"Queued"}}

\* The number of positions of `seq` that hold `x`.
Occurrences(seq, x) == Cardinality({k \in 1..Len(seq) : seq[k] = x})

\* The batch is not stuck: gather can return, or the task that holds the
\* event loop has a stage to run, or a request is pending, or a queued
\* source can pass the gate.
CanProceed ==
    \/ \A i \in DOMAIN ev : Ended(i)
    \/ running \in DOMAIN ev /\ ev[running].state \notin Terminal
    \/ running = 0 /\ \E i \in DOMAIN ev : ev[i].state = "Fetching"
    \/ running = 0 /\ sem > 0 /\ \E i \in DOMAIN ev : ev[i].state = "Queued"

\* C1. Batch failure isolation: whichever sources fail (transport error,
\* non-2xx response, unexpected exception), in every interleaving the batch
\* is never aborted and can always go on until it completes; each finished
\* source ended exactly as its evaluation alone ends on the same answer; and
\* the final result holds the incidents of the sources that reached Built,
\* each once, and nothing else.
C1_BatchFailureIsolation ==
    /\ mainPc = "fatal" => sources = <<>>
    /\ mainPc = "gather" => CanProceed
    /\ \A i \in DOMAIN ev :
          Ended(i) =>
              ev[i] = EvaluateAlone(sources[i], served[i][1], settings, clock)
    /\ mainPc = "done" =>
          /\ \A i \in DOMAIN ev : Ended(i)
          /\ Len(incidents) = Cardinality(BuiltIds)
          /\ \A i \in BuiltIds :
                Occurrences(incidents, ev[i].result[1]) =
                    Cardinality({j \in BuiltIds :
                                    ev[j].result[1] = ev[i].result[1]})

\* A finished batch in which one source raised, another failed to fetch and
\* a later one was built and is in the result.
C1_Witness ==
    /\ mainPc = "done"
    /\ \E i, j, k \in DOMAIN ev :
          /\ i < k /\ j < k
          /\ ev[i].state = "Failed"
          /\ ev[j].exit = "fetch_failure"
          /\ ev[k].state = "Built"
          /\ Occurrences(incidents, ev[k].result[1]) = 1

\* C2. Bounded concurrency: the sources admitted by the gate and not yet
\* ended never outnumber the concurrency limit, and the limit parsed from
\* any configured integer (0, negative, above 10 included) is in 1..10.
C2_BoundedConcurrency ==
    /\ settings.concurrency \in 1..MAX_CONCURRENCY
    /\ Cardinality(InFlight) <= settings.concurrency

\* A negative configured value: one source in flight fills the gate and
\* another waits.
C2_Witness ==
    /\ payload.concurrency # None /\ payload.concurrency[1] < 0
    /\ mainPc = "gather"
    /\ Cardinality(InFlight) = settings.concurrency
    /\ \E i \in DOMAIN ev : ev[i].state = "Queued"

\* Whether source i has entered pipeline state st.
Entered(i, st) == \E k \in 1..Len(ev[i].trace) : ev[i].trace[k] = st

\* Whether source i has entered st and left it.
Passed(i, st) == Entered(i, st) /\ ev[i].state # st

\* Whether some pattern of the list occurs in the text.
Occurs(text, patterns) ==
    \E p \in 1..Len(patterns) : \E k \in 0..Len(text) :
        MatchesAt(text, patterns[p], k)

\* The positions, in list order, of the patterns that occur in the text.
Hits(text, patterns) ==
    {p \in 1..Len(patterns) :
        \E k \in 0..Len(text) : MatchesAt(text, patterns[p], k)}

\* The extracted status candidate as a text ("" when there is none).
StatusOf(i) == IF ev[i].status_text = None THEN <<>> ELSE ev[i].status_text[1]

\* C3. Ignore short-circuit: once a fetched source is past extraction, if an
\* ignore pattern occurs in its status candidate or in its body then it is
\* Discarded for that reason and has no incident, whatever its delay
\* patterns and explicit delay hours; no delay-pattern match was attempted
\* (no match is recorded and no later state was entered).
C3_IgnoreShortCircuit ==
    \A i \in DOMAIN ev :
        (/\ Passed(i, "Extracted")
         /\ \/ Occurs(StatusOf(i), sources[i].ignore_patterns)
            \/ Occurs(ev[i].page_text, sources[i].ignore_patterns))
        => /\ ev[i].state = "Discarded"
           /\ ev[i].exit = "ignore"
           /\ ev[i].result = None
           /\ ev[i].match = None
           /\ ~Entered(i, "IgnoreChecked")
           /\ ~Entered(i, "PatternMatched")
           /\ results[i] = [kind |-> "value", value |-> None]

\* The ignore pattern occurs in the body only, a delay pattern occurs in the
\* status candidate, and the source was discarded by the ignore check.
C3_Witness ==
    \E i \in DOMAIN ev :
        /\ ev[i].exit = "ignore"
        /\ ~Occurs(StatusOf(i), sources[i].ignore_patterns)
        /\ Occurs(ev[i].page_text, sources[i].ignore_patterns)
        /\ Occurs(StatusOf(i), sources[i].delay_patterns)
        /\ sources[i].expected_delay_hours = None

\* C4. Status precedence: once a source is past the delay match, if some
\* delay pattern occurs in the status candidate the match has origin
\* `status` and is the first such pattern in list order (even when an
\* earlier pattern occurs in the body); otherwise, if some pattern occurs in
\* the body, the match has origin `body` and is the first such pattern;
\* otherwise the source is Discarded for want of a match.
C4_StatusPrecedence ==
    \A i \in DOMAIN ev :
        Passed(i, "IgnoreChecked") =>
            LET S == Hits(StatusOf(i), sources[i].delay_patterns)
                B == Hits(ev[i].page_text, sources[i].delay_patterns)
            IN /\ S # {} =>
                    /\ ev[i].match # None
                    /\ ev[i].match[1].origin = "status"
                    /\ \E p \in S :
                          /\ \A q \in S : p <= q
                          /\ ev[i].match[1].pattern =
                                 sources[i].delay_patterns[p]
               /\ (S = {} /\ B # {}) =>
                    /\ ev[i].match # None
                    /\ ev[i].match[1].origin = "body"
                    /\ \E p \in B :
                          /\ \A q \in B : p <= q
                          /\ ev[i].match[1].pattern =
                                 sources[i].delay_patterns[p]
               /\ (S = {} /\ B = {}) =>
                    /\ ev[i].state = "Discarded"
                    /\ ev[i].exit = "no_match"
                    /\ ev[i].match = None

\* The first pattern of the list occurs in the body only, the second in the
\* status candidate, and the second was selected, with origin `status`.
C4_Witness ==
    \E i \in DOMAIN ev :
        /\ ev[i].match # None
        /\ Len(sources[i].delay_patterns) >= 2
        /\ Hits(ev[i].page_text, sources[i].delay_patterns) = {1}
        /\ Hits(StatusOf(i), sources[i].delay_patterns) = {2}
        /\ ev[i].match[1].origin = "status"
        /\ ev[i].match[1].pattern = sources[i].delay_patterns[2]

\* Whether the explicit expected-delay-hours of source i select tier 1.
ExplicitHours(i) ==
    /\ sources[i].expected_delay_hours # None
    /\ sources[i].expected_delay_hours[1] > 0

\* Whether the delay hours of source i have been computed.
Computed(i) == i \in DOMAIN ev /\ ev[i].delay_hours # None

BothTimestamps(i) == ev[i].promised_dt # None /\ ev[i].estimated_dt # None

\* A text that is present and holds no date.
Unparseable(raw) == raw # None /\ \A k \in 1..Len(raw[1]) : raw[1][k] \notin DateTokens

\* C5. Three-tier delay computation: the delay hours of a source are (1) its
\* explicit expected-delay-hours when present and positive, whatever the
\* timestamps; else (2) the estimated-minus-promised difference in hours
\* (floored at zero, C6) when both timestamps are present; else (3) the
\* configured default.  Absent, zero or negative explicit hours never
\* select tier 1; an absent timestamp, or a promised or estimated text that
\* does not parse, gives tier 3.
C5_ThreeTierDelay ==
    \A i \in DOMAIN ev :
        Computed(i) =>
            LET d == ev[i].delay_hours[1]
                diff == ev[i].estimated_dt[1] - ev[i].promised_dt[1]
            IN /\ ExplicitHours(i) => d = sources[i].expected_delay_hours[1]
               /\ (~ExplicitHours(i) /\ BothTimestamps(i)) =>
                      d = IF diff >= 0 THEN diff ELSE 0
               /\ (~ExplicitHours(i) /\ ~BothTimestamps(i)) =>
                      d = settings.default_delay_hours
               /\ (~ExplicitHours(i) /\ (ev[i].promised_raw = None
                                         \/ Unparseable(ev[i].promised_raw)
                                         \/ Unparseable(ev[i].estimated_raw))) =>
                      d = settings.default_delay_hours

\* Explicit positive hours that disagree with both timestamps were used.
C5_Witness ==
    \E i \in DOMAIN ev :
        /\ Computed(i)
        /\ ExplicitHours(i)
        /\ BothTimestamps(i)
        /\ ev[i].estimated_dt[1] - ev[i].promised_dt[1]
               # sources[i].expected_delay_hours[1]
        /\ ev[i].delay_hours = sources[i].expected_delay_hours

\* C6. Delay floor: with both timestamps present and no explicit positive
\* hours, the delay hours are estimated minus promised when the estimated
\* instant is not before the promised one, and exactly 0 when it is; they
\* are never negative.
C6_DelayFloor ==
    \A i \in DOMAIN ev :
        (Computed(i) /\ ~ExplicitHours(i) /\ BothTimestamps(i)) =>
            LET d == ev[i].delay_hours[1]
                p == ev[i].promised_dt[1]
                e == ev[i].estimated_dt[1]
            IN /\ e >= p => d = e - p
               /\ e < p => d = 0
               /\ d >= 0

\* The estimated instant is before the promised one and the delay is 0.
C6_Witness ==
    \E i \in DOMAIN ev :
        /\ Computed(i) /\ ~ExplicitHours(i) /\ BothTimestamps(i)
        /\ ev[i].estimated_dt[1] < ev[i].promised_dt[1]
        /\ ev[i].delay_hours = Some(0)

\* C7. Effective threshold selection: the minimum the delay is compared with
\* is the source's own minimum-delay-hours whenever the source supplies one,
\* for every numeric value of it, and the engine default only when the
\* source supplies none.
C7_SourceOverrideWins ==
    \A i \in DOMAIN ev :
        Computed(i) =>
            ev[i].effective_min_delay =
                IF sources[i].min_delay_hours # None
                THEN sources[i].min_delay_hours
                ELSE Some(settings.min_delay_hours)

\* C8. Uniform threshold gating: whichever tier produced the delay hours, a
\* source goes on to be built if and only if its delay hours are greater
\* than or equal to the effective minimum computed for it; a delay below
\* the minimum ends in Discarded with no incident, a delay equal to it is
\* emitted, and an emitted incident carries a delay that is not below it.
C8_UniformThreshold ==
    \A i \in DOMAIN ev :
        /\ Computed(i) =>
              LET d == ev[i].delay_hours[1]
                  m == ev[i].effective_min_delay[1]
              IN /\ d < m => /\ ev[i].state = "Discarded"
                             /\ ev[i].exit = "below_threshold"
                             /\ ev[i].result = None
                 /\ d >= m => ev[i].state \in {"ThresholdChecked", "Built"}
        /\ ev[i].state = "Built" =>
              /\ Computed(i)
              /\ ev[i].delay_hours[1] >= ev[i].effective_min_delay[1]
              /\ ev[i].result[1].delayHours = ev[i].delay_hours[1]

\* The delay came from the default fallback, equals the minimum, and the
\* incident was built.
C8_Witness ==
    \E i \in DOMAIN ev :
        /\ Computed(i) /\ ~ExplicitHours(i) /\ ~BothTimestamps(i)
        /\ ev[i].delay_hours = ev[i].effective_min_delay
        /\ ev[i].delay_hours = Some(settings.default_delay_hours)
        /\ ev[i].state = "Built"

\* The states of the pipeline in the order of the code.
Linear ==
    <<"Fetching", "ContentDetected", "Extracted", "IgnoreChecked",
      "PatternMatched", "ThresholdChecked", "Built">>

\* The exits to Discarded: the state left and the reason.
Exits ==
    {<<"Fetching", "fetch_failure">>, <<"Extracted", "ignore">>,
     <<"IgnoreChecked", "no_match">>, <<"PatternMatched", "below_threshold">>}

\* C9. Per-source state machine: the states a source has entered are an
\* initial part of Fetching, ContentDetected, Extracted, IgnoreChecked,
\* PatternMatched, ThresholdChecked, Built, in that order, followed by at
\* most one early exit (Discarded, or Failed on an uncaught exception); no
\* state is entered twice.  Discarded is entered only on a fetch failure
\* (from Fetching), an ignore-pattern match (from Extracted), no
\* delay-pattern match (from IgnoreChecked) or a delay below the threshold
\* (from PatternMatched).  A source that ended Built yields exactly one
\* incident record, a source that ended Discarded yields none.
C9_StateMachine ==
    \A i \in DOMAIN ev :
        LET t == ev[i].trace
            n == Len(t)
        IN /\ n = 0 <=> ev[i].state = "Queued"
           /\ n > 0 => t[n] = ev[i].state
           /\ n <= Len(Linear) + 1
           /\ \A k \in 1..n :
                 \/ k <= Len(Linear) /\ t[k] = Linear[k]
                 \/ k = n /\ k > 1 /\ t[k] \in {"Discarded", "Failed"}
           /\ \A j, k \in 1..n : j # k => t[j] # t[k]
           /\ ev[i].state = "Discarded" =>
                 /\ <<t[n - 1], ev[i].exit>> \in Exits
                 /\ ev[i].exit = "fetch_failure" =>
                        served[i][1].outcome \in {"http_error", "request_error"}
                 /\ ev[i].exit = "ignore" =>
                        \/ Occurs(StatusOf(i), sources[i].ignore_patterns)
                        \/ Occurs(ev[i].page_text, sources[i].ignore_patterns)
                 /\ ev[i].exit = "no_match" =>
                        /\ ~Occurs(StatusOf(i), sources[i].delay_patterns)
                        /\ ~Occurs(ev[i].page_text, sources[i].delay_patterns)
                 /\ ev[i].exit = "below_threshold" =>
                        ev[i].delay_hours[1] < ev[i].effective_min_delay[1]
                 /\ ev[i].result = None
                 /\ results[i] = [kind |-> "value", value |-> None]
           /\ ev[i].state = "Built" =>
                 /\ t = Linear
                 /\ ev[i].result # None
                 /\ results[i] = [kind |-> "value", value |-> ev[i].result]
           /\ mainPc = "done" =>
                 /\ ev[i].state \in Terminal
                 /\ Len(incidents) = Cardinality(BuiltIds)
                 /\ ev[i].state = "Built" =>
                        Occurrences(incidents, ev[i].result[1]) =
                            Cardinality({j \in BuiltIds :
                                            ev[j].result = ev[i].result})

\* A source went through every state, was built, and its one record is the
\* result of the finished run.
C9_Witness ==
    /\ mainPc = "done"
    /\ \E i \in DOMAIN ev :
          /\ ev[i].trace = Linear
          /\ incidents = <<ev[i].result[1]>>

\* The incident identifier of a built source.
IncidentIdOf(i) == ev[i].result[1].incidentId

Declares(i) == sources[i].incident_id # None /\ sources[i].incident_id[1] # ""

\* C10. Incident identity: a built source that declares an incident id has
\* that id as its identifier; two built sources that declare none and have
\* the same (orderId, url) have the same identifier, whatever their other
\* configuration and whatever was fetched for them, and for order `ord-1` at
\* `https://a.example/t` it is APIFY-ORD-1-3B616235.
C10_IncidentIdentity ==
    /\ \A i \in BuiltIds :
          /\ Declares(i) => IncidentIdOf(i) = sources[i].incident_id[1]
          /\ (/\ ~Declares(i)
              /\ sources[i].order_id = "ord-1"
              /\ sources[i].url = "https://a.example/t")
             => IncidentIdOf(i) = "APIFY-ORD-1-3B616235"
    /\ \A i, j \in BuiltIds :
          (/\ ~Declares(i) /\ ~Declares(j)
           /\ sources[i].order_id = sources[j].order_id
           /\ sources[i].url = sources[j].url)
          => IncidentIdOf(i) = IncidentIdOf(j)

\* Two built sources with the same (orderId, url), different carriers,
\* patterns and fetched documents, and a third that declares its id.
C10_Witness ==
    \E i, j, k \in BuiltIds :
        /\ ~Declares(i) /\ ~Declares(j) /\ Declares(k)
        /\ sources[i].order_id = sources[j].order_id
        /\ sources[i].url = sources[j].url
        /\ sources[i].carrier # sources[j].carrier
        /\ served[i] # served[j]
        /\ IncidentIdOf(i) = IncidentIdOf(j)
        /\ IncidentIdOf(k) = sources[k].incident_id[1]

\* Whether main has parsed its input.
Parsed == mainPc # "start"

C14_MalformedIsZeroSources ==
    (Parsed /\ payload.sources.kind = "undecodable") => sources = <<>>

\* Whether from_dict accepts the entry: an object whose url and orderId are
\* not blank.
Blank(raw) == raw = None \/ Strip(raw[1]) = ""
ValidEntry(entry) ==
    entry.object /\ ~Blank(entry.url) /\ ~Blank(entry.orderId)

\* The j-th smallest element of a set of integers.
Nth(S, j) == CHOOSE k \in S : Cardinality({m \in S : m < k}) = j - 1

\* C15. Per-entry rejection at parse time: for a non-empty sequence of
\* entries (native, one object, or JSON-encoded) the parsed source list is
\* the subsequence, in the original order, of the entries that are objects
\* whose url and orderId are not blank after trimming, each with its url
\* and orderId trimmed; an invalid entry is skipped and the entries after
\* it are still parsed.  (An empty sequence with a top-level url is the
\* single-source shorthand.)
C15_PerEntryRejection ==
    (/\ Parsed
     /\ payload.sources.kind \in {"list", "encoded", "object"}
     /\ payload.sources.entries # <<>>)
    => LET entries == payload.sources.entries
           valid == {k \in 1..Len(entries) : ValidEntry(entries[k])}
       IN /\ Len(sources) = Cardinality(valid)
          /\ \A j \in 1..Len(sources) :
                LET e == entries[Nth(valid, j)]
                IN /\ sources[j].url = Strip(e.url[1])
                   /\ sources[j].order_id = Strip(e.orderId[1])
                   /\ sources[j].carrier = e.config.carrier

\* A list whose first entry is invalid and whose later entries are valid:
\* the later ones were parsed, in order.
C15_Witness ==
    /\ Parsed
    /\ payload.sources.kind = "list"
    /\ Len(payload.sources.entries) = 3
    /\ ~ValidEntry(payload.sources.entries[1])
    /\ ValidEntry(payload.sources.entries[2])
    /\ ValidEntry(payload.sources.entries[3])
    /\ Len(sources) = 2
    /\ sources[1].order_id = "ord-2"
    /\ sources[2].order_id = "ord-1"

\* The record of a built source.
RecordOf(i) == ev[i].result[1]

\* C11. Sparse output: every emitted record holds incidentId, orderId and
\* delayHours; no key of it holds the empty string or the empty text; and a
\* key of an optional field (carrier, region, metadata, the raw status, ETA
\* and promised texts, the snippet, the two timestamps) is in the record
\* exactly when the field has a value, so that no key holds None.
C11_SparseOutput ==
    \A i \in BuiltIds :
        LET rec == RecordOf(i)
            L == ev[i]
            Has(k) == k \in DOMAIN rec
        IN /\ {"incidentId", "orderId", "delayHours"} \subseteq DOMAIN rec
           /\ \A k \in DOMAIN rec \cap TextKeys : rec[k] # <<>>
           /\ \A k \in DOMAIN rec \cap StrKeys : rec[k] # ""
           /\ Has("metadata") => rec.metadata # <<>>
           /\ Has("carrier") <=> sources[i].carrier # None
           /\ Has("region") <=> sources[i].region # None
           /\ Has("metadata") <=> sources[i].metadata # <<>>
           /\ Has("rawStatusText") <=> L.status_text # None
           /\ Has("rawEstimatedDelivery") <=> L.estimated_raw # None
           /\ Has("rawPromisedDelivery") <=> L.promised_raw # None
           /\ Has("rawSnapshot") <=> L.context_snippet # None
           /\ Has("promisedDeliveryDate") <=>
                  (L.promised_dt # None \/ L.promised_raw # None)
           /\ Has("estimatedDelivery") <=>
                  (L.estimated_dt # None \/ L.estimated_raw # None)

\* A record built with no carrier, region, metadata, snippet, ETA or
\* promised date: none of their keys is in it.
C11_Witness ==
    \E i \in BuiltIds :
        /\ sources[i].carrier = None
        /\ sources[i].region = None
        /\ sources[i].metadata = <<>>
        /\ ev[i].context_snippet = None
        /\ ev[i].estimated_raw = None
        /\ ev[i].promised_raw = None
        /\ DOMAIN RecordOf(i) \cap
              {"carrier", "region", "metadata", "rawSnapshot",
               "rawEstimatedDelivery", "rawPromisedDelivery",
               "promisedDeliveryDate", "estimatedDelivery"} = {}

\* The snapshot-character budget the input configures, the default when it
\* configures none.
ConfiguredBudget ==
    IF payload.snapshotChars # None THEN payload.snapshotChars[1]
    ELSE DEFAULT_SNAPSHOT_CHARS

\* C12. Snippet bound: whatever the text, the match in it and the configured
\* budget, a context snippet that is returned is no longer than the budget;
\* and the snippet of an empty text is None.
C12_SnippetBound ==
    /\ \A i \in DOMAIN ev :
          ev[i].context_snippet # None =>
              Len(ev[i].context_snippet[1]) <= ConfiguredBudget
    /\ \A t \in {None, Some(<<>>)} :
          _context_snippet(t, PatternMatch(<<>>, <<>>, 0, 0, "body"),
                           ConfiguredBudget) = None

\* Whether source i has a fetched document.
Fetched(i) == i \in DOMAIN ev /\ ev[i].response # None

\* C16. Mode selection: a fetched source is in JSON mode exactly when the
\* content type holds application/json or the source declares mode json,
\* and in HTML mode otherwise; the extraction follows the mode (in JSON
\* mode the body is decoded, and a body that does not decode gives no
\* candidates; in HTML mode the candidates are those selected).
C16_ModeSelection ==
    \A i \in DOMAIN ev :
        Fetched(i) =>
            LET r == served[i][1]
                json == r.json_ct \/ sources[i].content_mode = "json"
            IN /\ ev[i].is_json_mode <=> json
               /\ (Entered(i, "Extracted") /\ json /\ ~r.decodes) =>
                      ev[i].status_text = None
               /\ (Entered(i, "Extracted") /\ ~json) =>
                      ev[i].status_text = Candidate(r.doc.status)

\* A source that declares mode json, served with another content type, was
\* extracted in JSON mode.
C16_Witness ==
    \E i \in DOMAIN ev :
        /\ Fetched(i)
        /\ sources[i].content_mode = "json"
        /\ ~served[i][1].json_ct
        /\ Entered(i, "Extracted")
        /\ ev[i].is_json_mode

\* C17. Explicit mode forces extraction: a source that declares mode html or
\* json is extracted in that mode whatever the content type; the content
\* type decides only for mode auto.
C17_ExplicitModeForces ==
    \A i \in DOMAIN ev :
        Fetched(i) =>
            /\ sources[i].content_mode = "json" => ev[i].is_json_mode
            /\ sources[i].content_mode = "html" => ~ev[i].is_json_mode
            /\ sources[i].content_mode = "auto" =>
                   (ev[i].is_json_mode <=> served[i][1].json_ct)

\* Whether source i is in JSON mode on a body that does not decode.
DecodeFailed(i) ==
    /\ Fetched(i)
    /\ ev[i].is_json_mode
    /\ ~served[i][1].decodes
    /\ ~served[i][1].raises

\* C18. JSON decode failure is not an exit: a source in JSON mode whose body
\* does not decode goes on to Extracted with no status candidate, no ETA
\* candidate, no promised value other than the configured one, and the
\* normalized raw body as full text; it is never failed, and it is
\* discarded only by the ignore check, the delay match or the threshold.
C18_DecodeFailureContinues ==
    \A i \in DOMAIN ev :
        (DecodeFailed(i) /\ Passed(i, "ContentDetected")) =>
            /\ Entered(i, "Extracted")
            /\ ev[i].status_text = None
            /\ ev[i].estimated_raw = None
            /\ ev[i].promised_raw = sources[i].promised_delivery_date
            /\ ev[i].page_text = _normalize_whitespace(served[i][1].body)
            /\ ev[i].state # "Failed"
            /\ ev[i].state = "Discarded" =>
                   ev[i].exit \in {"ignore", "no_match", "below_threshold"}

\* A body that did not decode, with a delay word in it: the source was
\* built from a body match.
C18_Witness ==
    \E i \in BuiltIds :
        /\ DecodeFailed(i)
        /\ served[i][1].doc.status # None
        /\ ev[i].match[1].origin = "body"
        /\ "rawStatusText" \notin DOMAIN RecordOf(i)

\* C19. Emitted timestamps are normalized: promisedDeliveryDate and
\* estimatedDelivery, when in the record, are the ISO-8601 UTC form (Z
\* suffix) of a timestamp that parsed, never raw text.
C19_TimestampsNormalized ==
    \A i \in BuiltIds :
        /\ "promisedDeliveryDate" \in DOMAIN RecordOf(i) =>
              /\ ev[i].promised_dt # None
              /\ RecordOf(i).promisedDeliveryDate = IsoOf(ev[i].promised_dt[1])
        /\ "estimatedDelivery" \in DOMAIN RecordOf(i) =>
              /\ ev[i].estimated_dt # None
              /\ RecordOf(i).estimatedDelivery = IsoOf(ev[i].estimated_dt[1])

\* Whether source i has a configured promised-delivery date.
Configured(i) == sources[i].promised_delivery_date # None

\* C20. Promised-delivery precedence: for a source with a configured
\* promised-delivery date, in HTML and in JSON mode and whatever the
\* document holds, the promised value is the configured string: it is the
\* one parsed for the delay computation and the one in the record.  A value
\* extracted from the document is used only when none is configured.
C20_PromisedPrecedence ==
    \A i \in DOMAIN ev :
        LET L == ev[i]
            conf == sources[i].promised_delivery_date
        IN /\ (Fetched(i) /\ Configured(i)) =>
                 /\ L.promised_raw = conf
                 /\ Computed(i) => L.promised_dt = _parse_datetime(conf)
                 /\ L.state = "Built" =>
                        RecordOf(i).rawPromisedDelivery = conf[1]
           /\ (Fetched(i) /\ ~Configured(i) /\ Entered(i, "Extracted")) =>
                 L.promised_raw =
                     IF DecodeFailed(i) THEN None
                     ELSE Candidate(served[i][1].doc.promised)

\* In JSON mode the document holds another promised date than the
\* configured one: the configured one gave the delay and is in the record.
C20_Witness ==
    \E i \in BuiltIds :
        /\ Configured(i)
        /\ ev[i].is_json_mode /\ served[i][1].decodes
        /\ Candidate(served[i][1].doc.promised) # None
        /\ Candidate(served[i][1].doc.promised)
               # sources[i].promised_delivery_date
        /\ _parse_datetime(Candidate(served[i][1].doc.promised)) # None
        /\ ev[i].promised_dt = _parse_datetime(sources[i].promised_delivery_date)
        /\ ev[i].promised_dt # None
        /\ RecordOf(i).rawPromisedDelivery
               = sources[i].promised_delivery_date[1]

\* C21. Status description fallback: in every emitted record
\* carrierStatusDescription is the extracted status text when there is one,
\* otherwise the matched text when it is not empty, otherwise the generic
\* phrase; the key is never absent.
C21_StatusDescriptionFallback ==
    \A i \in BuiltIds :
        LET rec == RecordOf(i)
            L == ev[i]
        IN /\ "carrierStatusDescription" \in DOMAIN rec
           /\ L.status_text # None =>
                  rec.carrierStatusDescription = L.status_text[1]
           /\ (L.status_text = None /\ L.match[1].text # <<>>) =>
                  rec.carrierStatusDescription = L.match[1].text
           /\ (L.status_text = None /\ L.match[1].text = <<>>) =>
                  rec.carrierStatusDescription = GENERIC_DESCRIPTION

\* No status text was extracted and the match is empty: the record carries
\* the generic phrase.
C21_Witness ==
    \E i \in BuiltIds :
        /\ ev[i].status_text = None
        /\ ev[i].match[1].text = <<>>
        /\ RecordOf(i).carrierStatusDescription = GENERIC_DESCRIPTION
        /\ "matchedText" \notin DOMAIN RecordOf(i)

\* Whether source i was served a decoded JSON document.
Decoded(i) == Fetched(i) /\ ev[i].is_json_mode /\ served[i][1].json # None

\* The first n tokens of a path.
PathPrefix(path, n) == SubSeq(path, 1, n)

\* C22. JSON path resolution fails soft: for every decoded document and
\* every path, resolution does not raise (no source fails in extraction);
\* once a prefix of the path resolves to None the whole path resolves to
\* None, whatever tokens follow; and a path whose tokens all succeed gives
\* the addressed value (items[1].status gives the inner status).
C22_ResolutionFailsSoft ==
    \A i \in DOMAIN ev :
        Decoded(i) =>
            LET doc == served[i][1].json[1] IN
            /\ ev[i].state # "Failed"
            /\ \A k \in 1..Len(sources[i].status_paths) :
                  LET path == sources[i].status_paths[k] IN
                  /\ ~_resolve_json_path(doc, path).raised
                  /\ \A n \in 1..Len(path) :
                        _resolve_json_path(doc, PathPrefix(path, n)).value
                            = JNull
                        => _resolve_json_path(doc, path).value = JNull
            /\ (doc.type = "dict" /\ Entered(i, "Extracted")
                  /\ sources[i].status_paths = <<<<"items", "1", "status">>>>)
               => ev[i].status_text = Some(<<"d">>)

\* C24. Estimated-timestamp derivation: the context snippet is parsed as the
\* estimated timestamp only when no estimated-delivery text was extracted;
\* when one was extracted and does not parse, the snippet is not consulted,
\* the estimated timestamp is absent and, without explicit hours, the delay
\* is the configured default.
C24_EstimatedDerivation ==
    \A i \in DOMAIN ev :
        Computed(i) =>
            LET L == ev[i] IN
            /\ L.estimated_raw = None
                  => L.estimated_dt = _parse_datetime(L.context_snippet)
            /\ L.estimated_raw # None
                  => L.estimated_dt = _parse_datetime(L.estimated_raw)
            /\ Unparseable(L.estimated_raw) =>
                  /\ L.estimated_dt = None
                  /\ ~ExplicitHours(i) =>
                        L.delay_hours = Some(settings.default_delay_hours)

\* An extracted text that does not parse next to a snippet that does, with
\* a parsed promised timestamp and no explicit hours.
C24_Witness ==
    \E i \in DOMAIN ev :
        /\ Computed(i)
        /\ Unparseable(ev[i].estimated_raw)
        /\ _parse_datetime(ev[i].context_snippet) # None
        /\ ev[i].promised_dt # None
        /\ ~ExplicitHours(i)
        /\ ev[i].delay_hours = Some(settings.default_delay_hours)

\* C25. Admission-slot conservation: a source holds a slot from the start
\* of its fetch until it reaches a terminal state, through the extraction,
\* matching and build steps, and gives it back on every outcome (Built,
\* Discarded, exception); at every moment of the batch the free slots plus
\* the sources holding one make the concurrency limit, and once the batch
\* has completed every slot is free.
C25_SlotConservation ==
    mainPc \in {"gather", "done"} =>
        /\ sem >= 0
        /\ sem + Cardinality(InFlight) = settings.concurrency
        /\ running # 0 => running \in InFlight
        /\ (\A i \in DOMAIN ev : Ended(i)) => sem = settings.concurrency
        /\ mainPc = "done" => sem = settings.concurrency

\* A completed batch whose sources ended in each of the three ways.
C25_Witness ==
    /\ mainPc = "done"
    /\ sem = settings.concurrency
    /\ \A st \in Terminal : \E i \in DOMAIN ev : ev[i].state = st

\* C26. Emission barrier: the dataset is written only after every source of
\* the batch has reached a terminal state; it is written at most once per
\* run, with the complete list of built incidents, and not at all when no
\* incident was built.
C26_EmissionBarrier ==
    /\ Len(dataset) <= 1
    /\ dataset # <<>> =>
          /\ mainPc = "done"
          /\ \A i \in DOMAIN ev : Ended(i)
          /\ dataset[1] # <<>>
          /\ Len(dataset[1]) = Cardinality(BuiltIds)
          /\ \A i \in BuiltIds :
                \E k \in 1..Len(dataset[1]) : dataset[1][k] = ev[i].result[1]
    /\ mainPc = "done" => (dataset = <<>> <=> BuiltIds = {})

\* A dataset written with two incidents after a batch of which one source
\* built nothing.
C26_Witness ==
    /\ Len(dataset) = 1
    /\ Cardinality(BuiltIds) = 2
    /\ \E i \in DOMAIN ev : ev[i].state # "Built"

\* C27. Result order: whatever order the requests complete in, the list of
\* incidents is in source configuration order: it is the subsequence of
\* the configured sources that reached Built, one record per such source,
\* none twice.
C27_ResultOrder ==
    mainPc = "done" =>
        /\ Len(incidents) = Cardinality(BuiltIds)
        /\ \A j \in 1..Len(incidents) :
              incidents[j] = RecordOf(Nth(BuiltIds, j))
        /\ dataset # <<>> => dataset[1] = incidents

\* An emitted list whose first incident was built after its second, from a
\* batch with a source between them that built nothing.
C27_Witness ==
    /\ mainPc = "done"
    /\ Len(incidents) = 2
    /\ incidents[1].detectedAt > incidents[2].detectedAt
    /\ BuiltIds = {1, 3}

\* The delay an item states: what it holds under delayHours when it holds
\* something there, else what it holds under delay_hours.
DelayOf(item) ==
    IF item.delayHours.kind # "none" THEN item.delayHours ELSE item.delay_hours

\* The order id an item states, under either key.
OrderOf(item) ==
    IF TruthyStr(item.orderId) THEN item.orderId ELSE item.order_id

\* An item with a numeric delay at or above the minimum and a non-empty
\* order id.
Qualifies(item, min_delay_hours) ==
    /\ DelayOf(item).kind = "num"
    /\ DelayOf(item).num >= min_delay_hours
    /\ TruthyStr(OrderOf(item))

\* The positions of the items read that qualify.
Qualifying ==
    {k \in 1..Len(runner.items) :
        Qualifies(runner.items[k], runner.args.min_delay_hours)}

\* The run was waited for and reported a success status.
Succeeded ==
    runner.waited /\ runner.status # None
    /\ runner.status[1] \in SUCCESS_STATUSES

\* Runner sequencing without the selection: with no dataset id given, the
\* dataset is read, the file written and the incident published only after
\* a success status; any other status ends the runner in error with
\* nothing read, written or published; the file is written before the
\* publication, and a failed publication leaves the runner done.
RunnerOrder ==
    /\ (runner.args.dataset_id = None
          /\ (runner.read \/ runner.file # None
               \/ runner.publication # "none")) => Succeeded
    /\ (runner.waited /\ ~Succeeded) =>
          /\ runner.pc = "error"
          /\ ~runner.read
          /\ runner.file = None
          /\ runner.publication = "none"
    /\ runner.file # None => runner.listed
    /\ runner.publication # "none" =>
          runner.file # None /\ runner.pc = "done"

\* C28. Runner sequencing: with no dataset id given, the runner reads the
\* dataset, writes the incident file and publishes only after the run
\* reported a success status, and any other status at the return of the one
\* wait makes it fail with nothing read, written or published; it selects
\* the first item in order with a numeric delay at or above the minimum and
\* a non-empty order id, and fails when there is none; a failed publication
\* after the file was written does not fail the run.
C28_RunnerSequencing ==
    /\ RunnerOrder
    /\ runner.listed =>
          IF Qualifying = {}
          THEN runner.pc = "error" /\ runner.file = None
          ELSE /\ runner.pc # "error"
               /\ runner.selected = Nth(Qualifying, 1)
               /\ runner.incident[1].orderId
                      = OrderOf(runner.items[runner.selected])[1]

\* Source i waits at the admission gate.
Queued(i) == i \in DOMAIN ev /\ ev[i].state = "Queued"

\* The run has emitted its result and finished, every source being ended.
Finished == mainPc = "done" /\ \A i \in DOMAIN ev : Ended(i)

\* C23. Batch termination: with no cancellation and every request
\* completing or timing out, every configured source, those queued behind
\* the gate included, is eventually admitted and eventually reaches a
\* terminal state, after which the run emits its result and finishes.
C23_BatchTermination ==
    /\ \A i \in SourceIds : Queued(i) ~> Started(i)
    /\ \A i \in SourceIds : (i \in DOMAIN ev) ~> Ended(i)
    /\ (mainPc = "gather") ~> Finished
    /\ [](mainPc = "done" => Finished)

\* A finished batch with more sources than slots.
C23_Witness ==
    /\ Finished
    /\ settings.concurrency = 1
    /\ Len(sources) = NumSources
    /\ NumSources > 1

=============================================================================
